---- MODULE Spec2Model ----
(***************************************************************************)
(* Financial analytics engine of the personal-finance dashboard:           *)
(*   PatternDetectionService  (src/services/patternDetectionService.ts)    *)
(*   ForecastingService       (src/unnamed/part_025)                       *)
(*   GET /api/insights/advanced (src/unnamed/part_009)                     *)
(*                                                                         *)
(* JavaScript numbers are modelled exactly: a finite number is             *)
(*   n/d + s * sqrt(rn/rd)   (s in {-1,0,1}; rn/rd a non-square rational   *)
(* when s # 0), and the three non-finite doubles NaN, +Infinity and        *)
(* -Infinity are values of their own with IEEE-754 arithmetic.             *)
(* A Date is the number of whole days since 1970-01-01 (UTC midnight).     *)
(***************************************************************************)
EXTENDS Integers, Sequences, FiniteSets, TLC

\* ------------------------------------------------------------------------
\* Integer helpers
\* ------------------------------------------------------------------------
IAbs(i) == IF i < 0 THEN -i ELSE i

ISign(i) == IF i < 0 THEN -1 ELSE IF i = 0 THEN 0 ELSE 1

RECURSIVE GCD(_, _)
GCD(a, b) == IF b = 0 THEN a ELSE GCD(b, a % b)

RECURSIVE ISqrtIn(_, _, _)
ISqrtIn(i, lo, hi) ==
    IF lo >= hi THEN lo
    ELSE LET mid == (lo + hi + 1) \div 2
         IN  IF mid * mid <= i THEN ISqrtIn(i, mid, hi) ELSE ISqrtIn(i, lo, mid - 1)

\* floor of the square root of a natural number (below 2^31)
ISqrt(i) == ISqrtIn(i, 0, IF i < 46340 THEN i ELSE 46340)

IsSquare(i) == ISqrt(i) * ISqrt(i) = i

\* ------------------------------------------------------------------------
\* JavaScript numbers
\* ------------------------------------------------------------------------
NaN == [k |-> "nan", n |-> 0, d |-> 1, s |-> 0, rn |-> 0, rd |-> 1]

Infinity == [k |-> "inf", n |-> 0, d |-> 1, s |-> 0, rn |-> 0, rd |-> 1]

NegInfinity == [k |-> "ninf", n |-> 0, d |-> 1, s |-> 0, rn |-> 0, rd |-> 1]

IsNaN(x) == x.k = "nan"

IsFinite(x) == x.k = "fin"

\* a * b is an integer TLC can hold (a >= 0, b > 0)
Fits(a, b) == a <= 2147483647 \div b

\* sign of a/b - c/d for a, c >= 0 and b, d > 0, by continued fractions
RECURSIVE CmpPos(_, _, _, _)
CmpPos(a, b, c, d) ==
    IF a \div b # c \div d THEN ISign((a \div b) - (c \div d))
    ELSE IF a % b = 0 /\ c % d = 0 THEN 0
    ELSE IF a % b = 0 THEN -1
    ELSE IF c % d = 0 THEN 1
    ELSE CmpPos(d, c % d, b, a % b)

\* sqrt(rn/rd) lies in [RootFloor/RootGrid, (RootFloor + 1)/RootGrid)
RootGrid(rn) ==
    IF Fits(rn, 1000000) THEN 1000
    ELSE IF Fits(rn, 10000) THEN 100
    ELSE IF Fits(rn, 100) THEN 10 ELSE 1

\* The arithmetic is one recursive evaluator, Calc(operation, arguments); the
\* operators below it name its operations.  The calendar arithmetic of Date and a call of
\* one of the services (Service, defined after them) are evaluated by it as well.
RECURSIVE Service(_, _)

RECURSIVE Calc(_, _, _, _, _)

\* the rational p/q (q # 0) in lowest terms
Rat(p, q) == Calc("Rat", p, q, 0, 0)

Num(i) == Calc("Rat", i, 1, 0, 0)

\* the rational parts of x and y added, over the least common denominator
RatAdd(x, y) == Calc("RatAdd", x, y, 0, 0)

\* the rational parts of x and y multiplied, cancelling across first
RatMul(x, y) == Calc("RatMul", x, y, 0, 0)

\* a + sgn * sqrt(p/q) for a rational a and p/q > 0; a perfect square is
\* folded into the rational part
Surd(a, sgn, p, q) == Calc("Surd", a, sgn, p, q)

RootFloor(rn, rd) == Calc("RootFloor", rn, rd, 0, 0)

\* sign of sqrt(rn/rd) - tn/td for an irrational root and tn, td > 0: by
\* squaring where the squares fit an integer, else by the bracket of the root
CmpRoot(rn, rd, tn, td) == Calc("CmpRoot", rn, rd, tn, td)

\* sign of the finite number x minus the rational p/q (q > 0)
SignMinusRat(x, p, q) == Calc("SignMinusRat", x, p, q, 0)

Sign(x) == Calc("Sign", x, 0, 0, 0)

\* a double keeps about 16 digits of an irrational root; where two different
\* roots meet in one sum or product the model carries each to three digits
Rounded(x) == Calc("Rounded", x, 0, 0, 0)

Neg(x) == Calc("Neg", x, 0, 0, 0)

AddFin(x, y) == Calc("AddFin", x, y, 0, 0)

\* x + y
Add(x, y) == Calc("Add", x, y, 0, 0)

\* x - y
Sub(x, y) == Calc("Sub", x, y, 0, 0)

\* c * x for a rational c # 0
Scaled(x, c) == Calc("Scaled", x, c, 0, 0)

MulFin(x, y) == Calc("MulFin", x, y, 0, 0)

\* x * y
Mul(x, y) == Calc("Mul", x, y, 0, 0)

\* 1 / y for a finite y # 0
Inverse(y) == Calc("Inverse", y, 0, 0, 0)

\* x / y
Div(x, y) == Calc("Div", x, y, 0, 0)

\* Math.abs
Abs(x) == Calc("Abs", x, 0, 0, 0)

\* Math.sqrt
Sqrt(x) == Calc("Sqrt", x, 0, 0, 0)

\* Math.pow(x, 2)
Square(x) == Calc("Mul", x, x, 0, 0)

\* x > y, x < y, x >= y, x <= y: every comparison with NaN is false
GT(x, y) == Calc("GT", x, y, 0, 0)

LT(x, y) == Calc("GT", y, x, 0, 0)

GE(x, y) == Calc("GE", x, y, 0, 0)

LE(x, y) == Calc("GE", y, x, 0, 0)

\* Math.max, Math.min: NaN if either argument is NaN
MathMax(x, y) == Calc("MathMax", x, y, 0, 0)

MathMin(x, y) == Calc("MathMin", x, y, 0, 0)

Calc(op, x, y, z, w) ==
    CASE op = "Rat" ->
        LET p  == x
            q  == y
            g  == GCD(IAbs(p), IAbs(q))
            sg == IF q < 0 THEN -1 ELSE 1
        IN  [k |-> "fin", n |-> sg * (p \div g), d |-> sg * (q \div g),
             s |-> 0, rn |-> 0, rd |-> 1]
      [] op = "RatAdd" ->
        LET g == GCD(x.d, y.d)
        IN  Rat(x.n * (y.d \div g) + y.n * (x.d \div g), (x.d \div g) * y.d)
      [] op = "RatMul" ->
        LET g1 == GCD(IAbs(x.n), y.d)
            g2 == GCD(IAbs(y.n), x.d)
        IN  Rat((x.n \div g1) * (y.n \div g2), (x.d \div g2) * (y.d \div g1))
      [] op = "Surd" ->
        LET a   == x
            sgn == y
            g   == GCD(z, w)
            pp  == z \div g
            qq  == w \div g
        IN  IF sgn = 0 \/ z = 0 THEN a
            ELSE IF IsSquare(pp) /\ IsSquare(qq)
                 THEN RatAdd(a, Rat(sgn * ISqrt(pp), ISqrt(qq)))
                 ELSE [k |-> "fin", n |-> a.n, d |-> a.d, s |-> sgn, rn |-> pp, rd |-> qq]
      [] op = "RootFloor" ->
        ISqrt((x * RootGrid(x) * RootGrid(x)) \div y)
      [] op = "CmpRoot" ->
        LET rn == x
            rd == y
            tn == z
            td == w
        IN  IF tn <= 46340 /\ td <= 46340 /\ Fits(rn, td * td) /\ Fits(rd, tn * tn)
            THEN ISign(rn * td * td - tn * tn * rd)
            ELSE IF CmpPos(tn, td, RootFloor(rn, rd), RootGrid(rn)) <= 0 THEN 1
            ELSE IF CmpPos(tn, td, RootFloor(rn, rd) + 1, RootGrid(rn)) >= 0 THEN -1
            ELSE ISign(rn * td * td - tn * tn * rd)
      [] op = "SignMinusRat" ->
        LET t == RatAdd(Rat(y, z), Rat(-x.n, x.d))    \* t = y/z - n/d
        IN  IF x.s = 0 THEN ISign(-t.n)
            ELSE IF x.s = 1
                 THEN (IF t.n <= 0 THEN 1 ELSE CmpRoot(x.rn, x.rd, t.n, t.d))
                 ELSE (IF t.n >= 0 THEN -1 ELSE -CmpRoot(x.rn, x.rd, -t.n, t.d))
      [] op = "Sign" ->
        IF x.k = "inf" THEN 1 ELSE IF x.k = "ninf" THEN -1
            ELSE IF x.k = "nan" THEN 0 ELSE SignMinusRat(x, 0, 1)
      [] op = "Rounded" ->
        IF x.k # "fin" \/ x.s = 0 THEN x
            ELSE RatAdd(x, Rat(x.s * RootFloor(x.rn, x.rd), RootGrid(x.rn)))
      [] op = "Neg" ->
        IF x.k = "nan" THEN NaN
            ELSE IF x.k = "inf" THEN NegInfinity
            ELSE IF x.k = "ninf" THEN Infinity
            ELSE [x EXCEPT !.n = -x.n, !.s = -x.s]
      [] op = "AddFin" ->
        IF y.s = 0 THEN Surd(RatAdd(x, y), x.s, x.rn, x.rd)
            ELSE IF x.s = 0 THEN Surd(RatAdd(x, y), y.s, y.rn, y.rd)
            ELSE IF x.rn = y.rn /\ x.rd = y.rd
                 THEN (IF x.s = y.s THEN Surd(RatAdd(x, y), x.s, 4 * x.rn, x.rd)
                       ELSE RatAdd(x, y))
                 ELSE RatAdd(Rounded(x), Rounded(y))
      [] op = "Add" ->
        IF x.k = "nan" \/ y.k = "nan" THEN NaN
            ELSE IF x.k = "fin" /\ y.k = "fin" THEN AddFin(x, y)
            ELSE IF x.k = "fin" THEN y
            ELSE IF y.k = "fin" THEN x
            ELSE IF x.k = y.k THEN x ELSE NaN
      [] op = "Sub" -> Add(x, Neg(y))
      [] op = "Scaled" ->
        LET c == y
            r == RatMul(Rat(x.rn, x.rd), RatMul(c, c))
        IN  IF x.s = 0 THEN RatMul(x, c)
            ELSE Surd(RatMul(x, c), x.s * ISign(c.n), r.n, r.d)
      [] op = "MulFin" ->
        IF y.s = 0 THEN (IF y.n = 0 THEN Num(0) ELSE Scaled(x, y))
            ELSE IF x.s = 0 THEN (IF x.n = 0 THEN Num(0) ELSE Scaled(y, x))
            ELSE IF x.n = 0 /\ y.n = 0
            THEN LET r == RatMul(Rat(x.rn, x.rd), Rat(y.rn, y.rd))
                 IN  Surd(Num(0), x.s * y.s, r.n, r.d)
            ELSE RatMul(Rounded(x), Rounded(y))
      [] op = "Mul" ->
        IF x.k = "nan" \/ y.k = "nan" THEN NaN
            ELSE IF x.k = "fin" /\ y.k = "fin" THEN MulFin(x, y)
            ELSE IF Sign(x) * Sign(y) = 0 THEN NaN
            ELSE IF Sign(x) * Sign(y) > 0 THEN Infinity ELSE NegInfinity
      [] op = "Inverse" ->
        IF x.s = 0 THEN Rat(x.d, x.n)
        ELSE IF x.n = 0 THEN Surd(Num(0), x.s, x.rd, x.rn)
        ELSE LET b == Rounded(x) IN Rat(b.d, b.n)
      [] op = "Div" ->
        IF x.k = "nan" \/ y.k = "nan" THEN NaN
            ELSE IF y.k = "fin"
            THEN (IF Sign(y) = 0
                  THEN (IF Sign(x) = 0 THEN NaN
                        ELSE IF Sign(x) > 0 THEN Infinity ELSE NegInfinity)
                  ELSE Mul(x, Inverse(y)))
            ELSE IF x.k = "fin" THEN Num(0)
            ELSE NaN
      [] op = "Abs" -> IF Sign(x) < 0 THEN Neg(x) ELSE x
      [] op = "Sqrt" ->
        IF x.k = "nan" \/ x.k = "ninf" THEN NaN
            ELSE IF x.k = "inf" THEN Infinity
            ELSE IF Sign(x) < 0 THEN NaN
            ELSE LET a == Rounded(x) IN Surd(Num(0), 1, a.n, a.d)
      [] op = "GT" ->
        /\ ~IsNaN(x) /\ ~IsNaN(y) /\ x # y
            /\ IF IsFinite(x) /\ IsFinite(y) /\ y.s = 0
               THEN SignMinusRat(x, y.n, y.d) > 0
               ELSE IF IsFinite(x) /\ IsFinite(y) /\ x.s = 0
               THEN SignMinusRat(y, x.n, x.d) < 0
               ELSE Sign(Sub(x, y)) > 0
      [] op = "GE" ->
        ~IsNaN(x) /\ ~IsNaN(y) /\ (x = y \/ GT(x, y))
      [] op = "MathMax" ->
        IF IsNaN(x) \/ IsNaN(y) THEN NaN
        ELSE IF GE(x, y) THEN x ELSE y
      [] op = "MathMin" ->
        IF IsNaN(x) \/ IsNaN(y) THEN NaN
        ELSE IF GE(y, x) THEN x ELSE y
      [] op = "NewDate" ->
        LET yy  == x + (y \div 12)
            mm  == (y % 12) + 1
            ya  == IF mm <= 2 THEN yy - 1 ELSE yy
            era == ya \div 400
            yoe == ya - era * 400
            doy == ((153 * (IF mm > 2 THEN mm - 3 ELSE mm + 9) + 2) \div 5) + z - 1
            doe == yoe * 365 + (yoe \div 4) - (yoe \div 100) + doy
        IN  era * 146097 + doe - 719468
      [] op = "Civil" ->
        LET era == (x + 719468) \div 146097
            doe == (x + 719468) - era * 146097
            yoe == (doe - (doe \div 1460) + (doe \div 36524) - (doe \div 146096)) \div 365
            doy == doe - (365 * yoe + (yoe \div 4) - (yoe \div 100))
            mp  == (5 * doy + 2) \div 153
            dd  == doy - ((153 * mp + 2) \div 5) + 1
            mm  == IF mp < 10 THEN mp + 3 ELSE mp - 9
        IN  [y |-> era * 400 + yoe + (IF mm <= 2 THEN 1 ELSE 0), m |-> mm - 1, d |-> dd]
      [] OTHER -> Service(op, x)

\* JavaScript evaluates a declaration where it stands, a LET definition is
\* evaluated where it is first used: Evaluated(<<a, b>>) evaluates a, then b
Evaluated(v) == v = v

\* array.reduce((sum, v) => sum + v, 0)
RECURSIVE SumFrom(_, _, _)
SumFrom(xs, i, sum) ==
    CASE Evaluated(sum) -> IF i > Len(xs) THEN sum ELSE SumFrom(xs, i + 1, Add(sum, xs[i]))

SumSeq(xs) == SumFrom(xs, 1, Num(0))

\* ------------------------------------------------------------------------
\* IEEE-754 doubles, bit for bit: sign * m * 2^e with m a natural number of
\* exactly 53 bits, kept as its digits to the base 2^15, lowest digit first
\* (TLC's integers end at 2^31); 0 has no digits.  Every operation computes
\* the exact result and rounds it to the nearest double, ties to even, as
\* the processor does.  The amounts are far from the range where a double
\* overflows or underflows.
\* ------------------------------------------------------------------------
RECURSIVE Ieee(_, _, _, _, _)

Ieee(op, x, y, z, w) ==
    CASE op = "Trim" ->
        IF x # <<>> /\ x[Len(x)] = 0 THEN Ieee("Trim", SubSeq(x, 1, Len(x) - 1), 0, 0, 0)
        ELSE x
      [] op = "Digits" ->
        Ieee("Trim", <<x % 32768, (x \div 32768) % 32768, x \div 1073741824>>, 0, 0, 0)
      [] op = "Cmp" ->
        IF Len(x) # Len(y) THEN (IF Len(x) > Len(y) THEN 1 ELSE -1)
        ELSE LET differ == {i \in 1..Len(x) : x[i] # y[i]}
             IN  IF differ = {} THEN 0
                 ELSE LET top == CHOOSE i \in differ : \A j \in differ : j <= i
                      IN  IF x[top] > y[top] THEN 1 ELSE -1
      [] op = "Plus" ->
        LET n        == (IF Len(x) > Len(y) THEN Len(x) ELSE Len(y)) + 1
            Digit(a, i) == IF i <= Len(a) THEN a[i] ELSE 0
            carry(i) == \E j \in 1..(i - 1) :
                            /\ Digit(x, j) + Digit(y, j) >= 32768
                            /\ \A h \in (j + 1)..(i - 1) : Digit(x, h) + Digit(y, h) = 32767
        IN  Ieee("Trim", [i \in 1..n |->
                             (Digit(x, i) + Digit(y, i) + (IF carry(i) THEN 1 ELSE 0)) % 32768],
                 0, 0, 0)
      [] op = "Minus" ->
        LET Digit(a, i) == IF i <= Len(a) THEN a[i] ELSE 0
            borrow(i) == \E j \in 1..(i - 1) :
                             /\ Digit(x, j) < Digit(y, j)
                             /\ \A h \in (j + 1)..(i - 1) : Digit(x, h) = Digit(y, h)
        IN  Ieee("Trim", [i \in 1..Len(x) |->
                             (Digit(x, i) - Digit(y, i) - (IF borrow(i) THEN 1 ELSE 0)
                                  + 32768) % 32768],
                 0, 0, 0)
      [] op = "Small" ->
        Ieee("Plus", [i \in 1..Len(x) |-> (x[i] * y) % 32768],
             <<0>> \o [i \in 1..Len(x) |-> (x[i] * y) \div 32768], 0, 0)
      [] op = "Times" ->
        IF y = <<>> THEN <<>>
        ELSE LET rest == Ieee("Times", x, Tail(y), 0, 0)
             IN  (CASE rest = rest ->
                 Ieee("Plus", Ieee("Small", x, y[1], 0, 0),
                      Ieee("Trim", <<0>> \o rest, 0, 0, 0), 0, 0))
      [] op = "Shl" ->
        IF x = <<>> THEN <<>>
        ELSE Ieee("Small", [i \in 1..(y \div 15) |-> 0] \o x, 2 ^ (y % 15), 0, 0)
      [] op = "Shr" ->
        LET kept == SubSeq(x, (y \div 15) + 1, Len(x))
            r    == y % 15
        IN  Ieee("Trim", [i \in 1..Len(kept) |->
                             (kept[i] \div (2 ^ r))
                                 + ((IF i < Len(kept) THEN kept[i + 1] ELSE 0) % (2 ^ r)) * (2 ^ (15 - r))],
                 0, 0, 0)
      [] op = "Low" ->
        \/ \E i \in 1..Len(x) : i <= y \div 15 /\ x[i] # 0
        \/ (y \div 15) + 1 <= Len(x) /\ x[(y \div 15) + 1] % (2 ^ (y % 15)) # 0
      [] op = "Bit" ->
        IF (y \div 15) + 1 <= Len(x) THEN (x[(y \div 15) + 1] \div (2 ^ (y % 15))) % 2 ELSE 0
      [] op = "Bits" ->
        IF x = <<>> THEN 0
        ELSE 15 * (Len(x) - 1)
                 + (CHOOSE b \in 1..15 : 2 ^ (b - 1) <= x[Len(x)] /\ x[Len(x)] < 2 ^ b)
      [] op = "QuotBits" ->
        \* one binary digit of the quotient per step, down to the end of the
        \* digit of x that holds bit z: w is the quotient and the remainder so far
        LET r    == Ieee("Plus", Ieee("Small", w.r, 2, 0, 0),
                         IF Ieee("Bit", x, z, 0, 0) = 1 THEN <<1>> ELSE <<>>, 0, 0)
            fits == Ieee("Cmp", r, y, 0, 0) >= 0
            q    == Ieee("Plus", Ieee("Small", w.q, 2, 0, 0),
                         IF fits THEN <<1>> ELSE <<>>, 0, 0)
            next == [q |-> q, r |-> IF fits THEN Ieee("Minus", r, y, 0, 0) ELSE r]
        IN  (CASE next = next ->
                 IF z % 15 = 0 THEN next ELSE Ieee("QuotBits", x, y, z - 1, next))
      [] op = "Quot" ->
        \* floor(x / y) and the remainder, from bit z of x down
        IF z < 0 THEN w
        ELSE LET next == Ieee("QuotBits", x, y, z, w)
             IN  (CASE next = next -> Ieee("Quot", x, y, (z \div 15) * 15 - 1, next))
      [] op = "RootBits" ->
        \* one binary digit of the root per step, from bit y down to the next
        \* multiple of 15: z is the root so far
        LET try  == Ieee("Plus", z, Ieee("Shl", <<1>>, y, 0, 0), 0, 0)
            next == IF Ieee("Cmp", Ieee("Times", try, try, 0, 0), x, 0, 0) <= 0
                    THEN try ELSE z
        IN  (CASE next = next ->
                 IF y % 15 = 0 THEN next ELSE Ieee("RootBits", x, y - 1, next, 0))
      [] op = "Root" ->
        \* floor(sqrt(x)), from bit y of the root down
        IF y < 0 THEN z
        ELSE LET next == Ieee("RootBits", x, y, z, 0)
             IN  (CASE next = next -> Ieee("Root", x, (y \div 15) * 15 - 1, next, 0))
      [] op = "Round" ->
        \* the double nearest to x.s * (x.m + f) * 2^x.e, where 0 <= f < 1 and
        \* f > 0 exactly when y
        IF x.m = <<>> THEN [k |-> "fin", s |-> 1, m |-> <<>>, e |-> 0]
        ELSE LET bits == Ieee("Bits", x.m, 0, 0, 0)
             IN  IF bits <= 53
                 THEN [k |-> "fin", s |-> x.s, m |-> Ieee("Shl", x.m, 53 - bits, 0, 0),
                       e |-> x.e - (53 - bits)]
                 ELSE LET drop == bits - 53
                          q    == Ieee("Shr", x.m, drop, 0, 0)
                          half == Ieee("Bit", x.m, drop - 1, 0, 0) = 1
                          more == y \/ Ieee("Low", x.m, drop - 1, 0, 0)
                          up   == half /\ (more \/ q[1] % 2 = 1)
                          r    == IF up THEN Ieee("Plus", q, <<1>>, 0, 0) ELSE q
                      IN  IF Ieee("Bits", r, 0, 0, 0) = 54
                          THEN [k |-> "fin", s |-> x.s, m |-> Ieee("Shr", r, 1, 0, 0),
                                e |-> x.e + drop + 1]
                          ELSE [k |-> "fin", s |-> x.s, m |-> r, e |-> x.e + drop]
      [] op = "FromInt" ->
        Ieee("Round", [s |-> IF x < 0 THEN -1 ELSE 1,
                       m |-> Ieee("Digits", IF x < 0 THEN -x ELSE x, 0, 0, 0), e |-> 0],
             FALSE, 0, 0)
      [] op = "FAdd" ->
        IF x.k # "fin" \/ y.k # "fin" THEN [k |-> "nan", s |-> 1, m |-> <<>>, e |-> 0]
        ELSE IF x.m = <<>> THEN y
        ELSE IF y.m = <<>> THEN x
        ELSE LET e  == IF x.e < y.e THEN x.e ELSE y.e
                 mx == Ieee("Shl", x.m, x.e - e, 0, 0)
                 my == Ieee("Shl", y.m, y.e - e, 0, 0)
                 c  == Ieee("Cmp", mx, my, 0, 0)
             IN  IF x.s = y.s
                 THEN Ieee("Round", [s |-> x.s, m |-> Ieee("Plus", mx, my, 0, 0), e |-> e],
                           FALSE, 0, 0)
                 ELSE IF c >= 0
                 THEN Ieee("Round", [s |-> x.s, m |-> Ieee("Minus", mx, my, 0, 0), e |-> e],
                           FALSE, 0, 0)
                 ELSE Ieee("Round", [s |-> y.s, m |-> Ieee("Minus", my, mx, 0, 0), e |-> e],
                           FALSE, 0, 0)
      [] op = "FNeg" -> [k |-> x.k, s |-> -x.s, m |-> x.m, e |-> x.e]
      [] op = "FMul" ->
        IF x.k # "fin" \/ y.k # "fin" THEN [k |-> "nan", s |-> 1, m |-> <<>>, e |-> 0]
        ELSE Ieee("Round", [s |-> x.s * y.s, m |-> Ieee("Times", x.m, y.m, 0, 0),
                            e |-> x.e + y.e], FALSE, 0, 0)
      [] op = "FDiv" ->
        IF x.k # "fin" \/ y.k # "fin" THEN [k |-> "nan", s |-> 1, m |-> <<>>, e |-> 0]
        ELSE IF y.m = <<>>
        THEN (IF x.m = <<>> THEN [k |-> "nan", s |-> 1, m |-> <<>>, e |-> 0]
              ELSE [k |-> "inf", s |-> x.s * y.s, m |-> <<>>, e |-> 0])
        ELSE LET top == Ieee("Shl", x.m, 56, 0, 0)
                 d   == Ieee("Quot", top, y.m, Ieee("Bits", top, 0, 0, 0) - 1,
                             [q |-> <<>>, r |-> <<>>])
             IN  (CASE d = d ->
                 Ieee("Round", [s |-> x.s * y.s, m |-> d.q, e |-> x.e - y.e - 56],
                      d.r # <<>>, 0, 0))
      [] op = "FSqrt" ->
        IF x.k # "fin" \/ x.s < 0 THEN [k |-> "nan", s |-> 1, m |-> <<>>, e |-> 0]
        ELSE IF x.m = <<>> THEN x
        ELSE LET by   == IF (x.e - 56) % 2 = 0 THEN 56 ELSE 57
                 top  == Ieee("Shl", x.m, by, 0, 0)
                 root == Ieee("Root", top, 55, <<>>, 0)
             IN  (CASE root = root ->
                 Ieee("Round", [s |-> 1, m |-> root, e |-> (x.e - by) \div 2],
                      Ieee("Times", root, root, 0, 0) # top, 0, 0))
      [] op = "Sum" ->
        \* values.reduce((sum, v) => sum + v, 0): y is the place of the next
        \* value of x, z the sum so far
        IF y > Len(x) THEN z
        ELSE LET next == Ieee("FAdd", z, x[y], 0, 0)
             IN  (CASE next = next -> Ieee("Sum", x, y + 1, next, 0))
      [] op = "Scores" ->
        \* Math.abs(txAmount - mean) / stdDev for every amount of a category
        \* group; Math.pow(v - mean, 2) is the rounded product of v - mean
        \* with itself
        LET n       == Ieee("FromInt", Len(x), 0, 0, 0)
            zero    == Ieee("FromInt", 0, 0, 0, 0)
            values  == [i \in 1..Len(x) |-> Ieee("FromInt", x[i], 0, 0, 0)]
            mean    == Ieee("FDiv", Ieee("Sum", values, 1, zero, 0), n, 0, 0)
            apart   == [i \in 1..Len(x) |->
                           Ieee("FAdd", values[i], Ieee("FNeg", mean, 0, 0, 0), 0, 0)]
            squares == [i \in 1..Len(x) |-> Ieee("FMul", apart[i], apart[i], 0, 0)]
            stdDev  == Ieee("FSqrt",
                            Ieee("FDiv", Ieee("Sum", squares, 1, zero, 0), n, 0, 0), 0, 0, 0)
        IN  (CASE mean = mean /\ stdDev = stdDev ->
                 [i \in 1..Len(x) |->
                     Ieee("FDiv", [apart[i] EXCEPT !.s = 1],
                          stdDev, 0, 0)])
      [] op = "FGt" ->
        \* x > y: false when either is NaN
        IF x.k = "nan" \/ y.k = "nan" THEN FALSE
        ELSE IF x.k = "inf" THEN x.s = 1 /\ ~(y.k = "inf" /\ y.s = 1)
        ELSE IF y.k = "inf" THEN y.s = -1
        ELSE LET d == Ieee("FAdd", x, Ieee("FNeg", y, 0, 0, 0), 0, 0)
             IN  d.m # <<>> /\ d.s = 1

\* ------------------------------------------------------------------------
\* Date: whole days since 1970-01-01; months are 0-based as in JavaScript
\* ------------------------------------------------------------------------
\* new Date(y, m, d): month and day overflow roll over into the next units
NewDate(y, m, d) == Calc("NewDate", y, m, d, 0)

\* the local year, month and day of month of a date
Civil(t) == Calc("Civil", t, 0, 0, 0)

GetFullYear(t) == Civil(t).y

GetMonth(t) == Civil(t).m

GetDate(t) == Civil(t).d

SetMonth(t, m) == NewDate(GetFullYear(t), m, GetDate(t))

SetDate(t, d) == NewDate(GetFullYear(t), GetMonth(t), d)

SetFullYear(t, y) == NewDate(y, GetMonth(t), GetDate(t))

\* date.toISOString().slice(0, 7) and `${getFullYear()}-${padStart(getMonth() + 1)}`:
\* the key "YYYY-MM", kept as the pair it spells; localeCompare orders the
\* strings as KeyLess orders the pairs
MonthKey(t) == <<GetFullYear(t), GetMonth(t) + 1>>

KeyLess(a, b) == a[1] < b[1] \/ (a[1] = b[1] /\ a[2] < b[2])

\* Math.floor((a.getTime() - b.getTime()) / (1000 * 60 * 60 * 24))
DaysDiff(a, b) == a - b

\* ------------------------------------------------------------------------
\* Strings are sequences of characters
\* ------------------------------------------------------------------------
Dash == "-"

Uncategorized == <<"u", "n", "c", "a", "t", "e", "g", "o", "r", "i", "z", "e", "d">>

\* String.prototype.split(sep) for a one-character separator
RECURSIVE Split(_, _)
Split(str, sep) ==
    IF \A i \in 1..Len(str) : str[i] # sep THEN <<str>>
    ELSE LET i == CHOOSE j \in 1..Len(str) :
                      str[j] = sep /\ \A h \in 1..(j - 1) : str[h] # sep
         IN  <<SubSeq(str, 1, i - 1)>> \o Split(SubSeq(str, i + 1, Len(str)), sep)

\* transaction.categoryId || 'uncategorized'   (null is the empty sequence)
CategoryOrSentinel(categoryId) == IF categoryId = <<>> THEN Uncategorized ELSE categoryId

\* Number(tx.amount): amounts are whole currency units
Amount(tx) == Num(tx.amount)

\* ------------------------------------------------------------------------
\* PatternDetectionService.detectRecurringTransactions
\* ------------------------------------------------------------------------
\* transactions.map(tx => ({...tx, payee: tx.description}))
WithPayee(txs) ==
    [i \in 1..Len(txs) |->
        [id |-> txs[i].id, description |-> txs[i].description,
         categoryId |-> txs[i].categoryId, amount |-> txs[i].amount,
         date |-> txs[i].date, type |-> txs[i].type, payee |-> txs[i].description]]

\* variant: the key leaves the category out
GroupKeyByPayee(tx) == tx.payee \o <<Dash>> \o Uncategorized

\* const key = `${transaction.payee}-${categoryId}`
GroupKey(tx) == tx.payee \o <<Dash>> \o CategoryOrSentinel(tx.categoryId)

\* the keys of a reduce-built Record, in insertion order
KeysInOrder(keys) ==
    LET first == SelectSeq([i \in 1..Len(keys) |-> i],
                           LAMBDA i : \A j \in 1..(i - 1) : keys[j] # keys[i])
    IN  [n \in 1..Len(first) |-> keys[first[n]]]

\* acc[key]: the transactions pushed under one key, in input order
Members(txs, k) == SelectSeq(txs, LAMBDA tx : GroupKey(tx) = k)

\* [...txs].sort((a, b) => a.date.getTime() - b.date.getTime()); the sort is
\* stable, so a transaction comes after the earlier ones and after those of
\* its own date that precede it in the input
SortAscending(txs) ==
    LET n       == Len(txs)
        Rank(j) == Cardinality({i \in 1..n : \/ txs[i].date < txs[j].date
                                             \/ txs[i].date = txs[j].date /\ i < j}) + 1
    IN  [p \in 1..n |-> txs[CHOOSE j \in 1..n : Rank(j) = p]]

\* the day gaps between consecutive sorted transactions
Intervals(sortedTxs) ==
    [i \in 1..(Len(sortedTxs) - 1) |->
        Num(DaysDiff(sortedTxs[i + 1].date, sortedTxs[i].date))]

Mean(values) == Div(SumSeq(values), Num(Len(values)))

\* Math.sqrt(values.reduce((s, v) => s + Math.pow(v - mean, 2), 0) / values.length)
StdDev(values, mean) ==
    LET squares == SumSeq([i \in 1..Len(values) |-> Square(Sub(values[i], mean))])
    IN  CASE Evaluated(squares) -> Sqrt(Div(squares, Num(Len(values))))

RegularLimit == 3

EmitThreshold == Rat(6, 10)

\* variant: the weekly confidence divides by 30, as the monthly one does
ClassifyWeeklyAsMonthly(avgInterval, stdDev) ==
    IF ~LT(stdDev, Num(RegularLimit))
    THEN [frequency |-> "irregular", confidenceScore |-> Num(0)]
    ELSE IF GE(avgInterval, Num(25)) /\ LE(avgInterval, Num(35))
    THEN [frequency |-> "monthly",
          confidenceScore |-> Sub(Rat(9, 10), Div(stdDev, Num(30)))]
    ELSE IF GE(avgInterval, Num(5)) /\ LE(avgInterval, Num(9))
    THEN [frequency |-> "weekly",
          confidenceScore |-> Sub(Rat(9, 10), Div(stdDev, Num(30)))]
    ELSE IF GE(avgInterval, Num(350)) /\ LE(avgInterval, Num(380))
    THEN [frequency |-> "yearly",
          confidenceScore |-> Sub(Rat(9, 10), Div(stdDev, Num(365)))]
    ELSE [frequency |-> "irregular",
          confidenceScore |-> Sub(Rat(5, 10), Div(stdDev, Num(30)))]

\* variant: a regular group outside the three bands starts from 0.9 as well
ClassifyIrregularKept(avgInterval, stdDev) ==
    IF ~LT(stdDev, Num(RegularLimit))
    THEN [frequency |-> "irregular", confidenceScore |-> Num(0)]
    ELSE IF GE(avgInterval, Num(25)) /\ LE(avgInterval, Num(35))
    THEN [frequency |-> "monthly",
          confidenceScore |-> Sub(Rat(9, 10), Div(stdDev, Num(30)))]
    ELSE IF GE(avgInterval, Num(5)) /\ LE(avgInterval, Num(9))
    THEN [frequency |-> "weekly",
          confidenceScore |-> Sub(Rat(9, 10), Div(stdDev, Num(7)))]
    ELSE IF GE(avgInterval, Num(350)) /\ LE(avgInterval, Num(380))
    THEN [frequency |-> "yearly",
          confidenceScore |-> Sub(Rat(9, 10), Div(stdDev, Num(365)))]
    ELSE [frequency |-> "irregular",
          confidenceScore |-> Sub(Rat(9, 10), Div(stdDev, Num(30)))]

\* frequency and confidenceScore of a group with at least one interval
Classify(avgInterval, stdDev) ==
    IF ~LT(stdDev, Num(RegularLimit))
    THEN [frequency |-> "irregular", confidenceScore |-> Num(0)]
    ELSE IF GE(avgInterval, Num(25)) /\ LE(avgInterval, Num(35))
    THEN [frequency |-> "monthly",
          confidenceScore |-> Sub(Rat(9, 10), Div(stdDev, Num(30)))]
    ELSE IF GE(avgInterval, Num(5)) /\ LE(avgInterval, Num(9))
    THEN [frequency |-> "weekly",
          confidenceScore |-> Sub(Rat(9, 10), Div(stdDev, Num(7)))]
    ELSE IF GE(avgInterval, Num(350)) /\ LE(avgInterval, Num(380))
    THEN [frequency |-> "yearly",
          confidenceScore |-> Sub(Rat(9, 10), Div(stdDev, Num(365)))]
    ELSE [frequency |-> "irregular",
          confidenceScore |-> Sub(Rat(5, 10), Div(stdDev, Num(30)))]

\* Math.round of a finite number
MathRound(x) ==
    LET a == Rounded(x) IN (2 * a.n + a.d) \div (2 * a.d)

\* variant: a month taken as 30 days
NextPredictedByDays(frequency, lastTxDate, avgInterval) ==
    IF frequency = "monthly" THEN <<SetDate(lastTxDate, GetDate(lastTxDate) + 30)>>
    ELSE IF frequency = "weekly" THEN <<SetDate(lastTxDate, GetDate(lastTxDate) + 7)>>
    ELSE IF frequency = "yearly"
    THEN <<SetFullYear(lastTxDate, GetFullYear(lastTxDate) + 1)>>
    ELSE <<SetDate(lastTxDate, GetDate(lastTxDate) + MathRound(avgInterval))>>

\* nextPredictedDate (<<>> is null) of a regular group
NextPredicted(frequency, lastTxDate, avgInterval) ==
    IF frequency = "monthly" THEN <<SetMonth(lastTxDate, GetMonth(lastTxDate) + 1)>>
    ELSE IF frequency = "weekly" THEN <<SetDate(lastTxDate, GetDate(lastTxDate) + 7)>>
    ELSE IF frequency = "yearly"
    THEN <<SetFullYear(lastTxDate, GetFullYear(lastTxDate) + 1)>>
    ELSE <<SetDate(lastTxDate, GetDate(lastTxDate) + MathRound(avgInterval))>>

\* const [payee, categoryId] = key.split('-')
KeyPayee(key) == Split(key, Dash)[1]

KeyCategoryId(key) == Split(key, Dash)[2]

\* the candidate pattern of one group of two or more transactions
GroupPattern(key, txs) ==
    LET sortedTxs     == SortAscending(txs)
        averageAmount == Div(SumSeq([i \in 1..Len(sortedTxs) |-> Amount(sortedTxs[i])]),
                             Num(Len(sortedTxs)))
        intervals     == Intervals(sortedTxs)
        avgInterval   == Mean(intervals)
        stdDev        == StdDev(intervals, avgInterval)
        cls           == Classify(avgInterval, stdDev)
        lastTxDate    == sortedTxs[Len(sortedTxs)].date
    IN  CASE Evaluated(<<sortedTxs, intervals, avgInterval, stdDev, cls, averageAmount>>) ->
        [payee               |-> KeyPayee(key),
         categoryId          |-> KeyCategoryId(key),
         averageAmount       |-> averageAmount,
         frequency           |-> cls.frequency,
         confidenceScore     |-> cls.confidenceScore,
         lastTransactionDate |-> lastTxDate,
         nextPredictedDate   |-> IF LT(stdDev, Num(RegularLimit))
                                 THEN NextPredicted(cls.frequency, lastTxDate, avgInterval)
                                 ELSE <<>>,
         transactions        |-> sortedTxs]

\* if (confidenceScore > 0.5) patterns.push(...)
EmittedAboveHalf(pattern) == GT(pattern.confidenceScore, Rat(5, 10))

\* if (confidenceScore > 0.6) patterns.push(...)
Emitted(pattern) == GT(pattern.confidenceScore, EmitThreshold)

GroupKeys(txs) == [i \in 1..Len(txs) |-> GroupKey(txs[i])]

\* for (const [key, txs] of Object.entries(grouped)) ...
RECURSIVE PatternsOf(_, _)
PatternsOf(keys, txs) ==
    IF keys = <<>> THEN <<>>
    ELSE LET members == Members(txs, keys[1])
             pattern == GroupPattern(keys[1], members)
             rest    == PatternsOf(Tail(keys), txs)
         IN  IF Len(members) < 2 THEN rest
             ELSE CASE Evaluated(pattern) ->
                  IF Emitted(pattern) THEN <<pattern>> \o rest ELSE rest

detectRecurringTransactions(transactions) ==
    PatternsOf(KeysInOrder(GroupKeys(WithPayee(transactions))), WithPayee(transactions))

\* variant: the input itself is sorted, transactions.sort(...), before grouping
ArgumentSorted(transactions) == SortAscending(transactions)

\* the caller's array after the call: map, reduce and [...txs] build arrays
\* and objects of their own, and no statement writes to the argument
ArgumentAfterDetection(transactions) == transactions

\* ------------------------------------------------------------------------
\* PatternDetectionService.detectAnomalies
\* ------------------------------------------------------------------------
MinCategorySample == 5

CategoryKeys(txs) == [i \in 1..Len(txs) |-> CategoryOrSentinel(txs[i].categoryId)]

\* the distance from the mean, not scaled by the standard deviation
DeviationUnscaled(txAmount, mean, stdDev) == Abs(Sub(txAmount, mean))

\* const deviationScore = Math.abs(txAmount - mean) / stdDev
DeviationScore(txAmount, mean, stdDev) == Div(Abs(Sub(txAmount, mean)), stdDev)

\* if (!(deviationScore <= 2))
FlaggedUnlessWithin(deviationScore) == ~LE(deviationScore, Num(2))

\* if (deviationScore > 2)
CategoryFlagged(deviationScore) == GT(deviationScore, Num(2))

\* variant: the thresholds themselves count as the higher severity
SeverityFromThreshold(deviationScore) ==
    IF GE(deviationScore, Num(4)) THEN "high"
    ELSE IF GE(deviationScore, Num(3)) THEN "medium"
    ELSE "low"

\* variant: 'low' and 'medium' change places
SeveritySwapped(deviationScore) ==
    IF GT(deviationScore, Num(4)) THEN "high"
    ELSE IF GT(deviationScore, Num(3)) THEN "low"
    ELSE "medium"

\* let severity = 'low'; > 3: 'medium'; > 4: 'high'
CategorySeverity(deviationScore) ==
    IF GT(deviationScore, Num(4)) THEN "high"
    ELSE IF GT(deviationScore, Num(3)) THEN "medium"
    ELSE "low"

\* the anomaly record of one transaction of a category group
CategoryAnomaly(tx, mean, stdDev) ==
    LET score == DeviationScore(Amount(tx), mean, stdDev)
    IN  CASE Evaluated(score) ->
        [transaction     |-> tx,
         reason          |-> [kind |-> "category amount", payee |-> tx.payee],
         severity        |-> CategorySeverity(score),
         amountDeviation |-> <<score>>,
         timeDeviation   |-> <<>>]

\* the anomalies pushed by categoryTxs.forEach for one category group
CategoryGroupAnomalies(categoryTxs, mean, stdDev) ==
    SelectSeq([i \in 1..Len(categoryTxs) |-> CategoryAnomaly(categoryTxs[i], mean, stdDev)],
              LAMBDA a : CategoryFlagged(a.amountDeviation[1]))

\* variant: every transaction is pushed under every category
AllAsOneCategory(txs, k) == txs

\* txByCategory[tx.categoryId || 'uncategorized']
CategoryMembers(txs, k) == SelectSeq(txs, LAMBDA tx : CategoryOrSentinel(tx.categoryId) = k)

\* for (const [, categoryTxs] of Object.entries(txByCategory)) ...
RECURSIVE CategoryAnomalies(_, _)
CategoryAnomalies(keys, txs) ==
    IF keys = <<>> THEN <<>>
    ELSE LET categoryTxs == CategoryMembers(txs, keys[1])
             amounts     == [i \in 1..Len(categoryTxs) |-> Amount(categoryTxs[i])]
             mean        == Mean(amounts)
             stdDev      == StdDev(amounts, mean)
             rest        == CategoryAnomalies(Tail(keys), txs)
         IN  IF Len(categoryTxs) < MinCategorySample THEN rest
             ELSE CASE Evaluated(<<mean, stdDev>>) ->
                  CategoryGroupAnomalies(categoryTxs, mean, stdDev) \o rest

\* .sort((a, b) => b.date.getTime() - a.date.getTime()); the sort is stable
SortDescending(txs) ==
    LET n       == Len(txs)
        Rank(j) == Cardinality({i \in 1..n : \/ txs[i].date > txs[j].date
                                             \/ txs[i].date = txs[j].date /\ i < j}) + 1
    IN  [p \in 1..n |-> txs[CHOOSE j \in 1..n : Rank(j) = p]]

RecentWindow == 3

\* variant: pattern.transactions.slice(-3), left in ascending order
RecentUnsorted(pattern) ==
    LET txs == pattern.transactions
    IN  SubSeq(txs, IF Len(txs) > RecentWindow THEN Len(txs) - RecentWindow + 1 ELSE 1,
               Len(txs))

\* pattern.transactions.slice(-3).sort(...)
RecentTxs(pattern) ==
    LET txs == pattern.transactions
    IN  SortDescending(SubSeq(txs, IF Len(txs) > RecentWindow
                                   THEN Len(txs) - RecentWindow + 1 ELSE 1, Len(txs)))

\* Math.abs(txAmount - pattern.averageAmount) / pattern.averageAmount
AmountDeviation(txAmount, averageAmount) == Div(Abs(Sub(txAmount, averageAmount)), averageAmount)

\* if (amountDeviation > 0.2)
AmountFlagged(amountDeviation) == GT(amountDeviation, Rat(2, 10))

AmountSeverity(amountDeviation) ==
    IF GT(amountDeviation, Num(1)) THEN "high"
    ELSE IF GT(amountDeviation, Rat(5, 10)) THEN "medium"
    ELSE "low"

PatternAmountAnomalies(pattern) ==
    LET latestTx == RecentTxs(pattern)[1]
        dev      == AmountDeviation(Amount(latestTx), pattern.averageAmount)
    IN  CASE Evaluated(<<latestTx, dev>>) ->
        IF AmountFlagged(dev)
        THEN <<[transaction     |-> latestTx,
                reason          |-> [kind |-> "recurring amount", payee |-> pattern.payee],
                severity        |-> AmountSeverity(dev),
                amountDeviation |-> <<dev>>,
                timeDeviation   |-> <<>>]>>
        ELSE <<>>

ExpectedInterval(frequency) ==
    IF frequency = "yearly" THEN 365 ELSE IF frequency = "weekly" THEN 7 ELSE 30

TimeSeverity(timeDeviation) ==
    IF GT(timeDeviation, Rat(6, 10)) THEN "high"
    ELSE IF GT(timeDeviation, Rat(4, 10)) THEN "medium"
    ELSE "low"

\* variant: the timing check runs whatever the confidence of the pattern
TimingUnguarded(pattern) ==
    LET recentTxs == RecentTxs(pattern)
        latest    == Num(DaysDiff(recentTxs[1].date, recentTxs[2].date))
        expected  == Num(ExpectedInterval(pattern.frequency))
        dev       == Div(Abs(Sub(latest, expected)), expected)
    IN  IF Len(recentTxs) > 1 /\ GT(dev, Rat(2, 10))
        THEN <<[transaction     |-> recentTxs[1],
                reason          |-> [kind |-> "recurring timing", payee |-> pattern.payee],
                severity        |-> TimeSeverity(dev),
                amountDeviation |-> <<>>,
                timeDeviation   |-> <<dev>>]>>
        ELSE <<>>

PatternTimingAnomalies(pattern) ==
    LET recentTxs == RecentTxs(pattern)
        latest    == Num(DaysDiff(recentTxs[1].date, recentTxs[2].date))
        expected  == Num(ExpectedInterval(pattern.frequency))
        dev       == Div(Abs(Sub(latest, expected)), expected)
    IN  IF GT(pattern.confidenceScore, Rat(8, 10)) /\ Len(recentTxs) > 1
           /\ GT(dev, Rat(2, 10))
        THEN <<[transaction     |-> recentTxs[1],
                reason          |-> [kind |-> "recurring timing", payee |-> pattern.payee],
                severity        |-> TimeSeverity(dev),
                amountDeviation |-> <<>>,
                timeDeviation   |-> <<dev>>]>>
        ELSE <<>>

\* patterns.forEach(pattern => ...)
RECURSIVE PatternAnomalies(_)
PatternAnomalies(patterns) ==
    IF patterns = <<>> THEN <<>>
    ELSE (IF Len(RecentTxs(patterns[1])) > 0
          THEN PatternAmountAnomalies(patterns[1]) \o PatternTimingAnomalies(patterns[1])
          ELSE <<>>) \o PatternAnomalies(Tail(patterns))

\* variant: an early return without an array when there is nothing to analyse
UndefinedWhenEmpty(transactions, patterns) ==
    IF transactions = <<>> THEN <<"undefined">>
    ELSE CategoryAnomalies(KeysInOrder(CategoryKeys(transactions)), WithPayee(transactions))
             \o PatternAnomalies(patterns)

detectAnomalies(transactions, patterns) ==
    CategoryAnomalies(KeysInOrder(CategoryKeys(transactions)), WithPayee(transactions))
        \o PatternAnomalies(patterns)

\* variant: pattern.transactions.sort(...) without slice(-3) sorts the list
\* of the pattern itself
PatternsSortedInPlace(patterns) ==
    [i \in 1..Len(patterns) |-> [patterns[i] EXCEPT !.transactions = SortDescending(@)]]

\* the caller's patterns after the call: slice(-3) makes the array that is
\* sorted, and the loop reads the fields of a pattern without assigning any
PatternsAfterAnomalies(patterns) == patterns

\* ------------------------------------------------------------------------
\* detectAnomalies with the category scores computed in doubles, as the
\* program computes them; the pattern-level checks are those above
\* ------------------------------------------------------------------------
\* if (deviationScore > 2) { let severity = 'low'; > 3: 'medium'; > 4: 'high' }
RECURSIVE CategoryAnomaliesInDoubles(_, _)
CategoryAnomaliesInDoubles(keys, txs) ==
    IF keys = <<>> THEN <<>>
    ELSE LET categoryTxs == CategoryMembers(txs, keys[1])
             scores      == Ieee("Scores",
                                 [i \in 1..Len(categoryTxs) |-> categoryTxs[i].amount],
                                 0, 0, 0)
             above(i, limit) == Ieee("FGt", scores[i], Ieee("FromInt", limit, 0, 0, 0), 0, 0)
             rest        == CategoryAnomaliesInDoubles(Tail(keys), txs)
         IN  IF Len(categoryTxs) < MinCategorySample THEN rest
             ELSE CASE Evaluated(scores) ->
                  SelectSeq([i \in 1..Len(categoryTxs) |->
                                [transaction     |-> categoryTxs[i],
                                 reason          |-> [kind  |-> "category amount",
                                                      payee |-> categoryTxs[i].payee],
                                 severity        |-> IF above(i, 4) THEN "high"
                                                     ELSE IF above(i, 3) THEN "medium"
                                                     ELSE IF above(i, 2) THEN "low"
                                                     ELSE "none",
                                 amountDeviation |-> <<scores[i]>>,
                                 timeDeviation   |-> <<>>]],
                            LAMBDA a : a.severity # "none") \o rest

detectAnomaliesInDoubles(transactions, patterns) ==
    CategoryAnomaliesInDoubles(KeysInOrder(CategoryKeys(transactions)), WithPayee(transactions))
        \o PatternAnomalies(patterns)

\* ------------------------------------------------------------------------
\* ForecastingService
\* ------------------------------------------------------------------------
\* sum of Number(tx.amount) over the transactions of one month and one type
MonthTypeTotal(txs, month, type) ==
    LET matching == SelectSeq(txs, LAMBDA tx : MonthKey(tx.date) = month /\ tx.type = type)
    IN  SumSeq([i \in 1..Len(matching) |-> Amount(matching[i])])

\* .sort((a, b) => a.month.localeCompare(b.month)); the sort is stable
SortByMonth(rows) ==
    LET n       == Len(rows)
        Rank(j) == Cardinality({i \in 1..n : \/ KeyLess(rows[i].month, rows[j].month)
                                             \/ rows[i].month = rows[j].month /\ i < j}) + 1
    IN  [p \in 1..n |-> rows[CHOOSE j \in 1..n : Rank(j) = p]]

calculateHistoricalMonthlyTotals(transactions) ==
    LET months == KeysInOrder([i \in 1..Len(transactions) |-> MonthKey(transactions[i].date)])
    IN  SortByMonth([i \in 1..Len(months) |->
            [month    |-> months[i],
             income   |-> MonthTypeTotal(transactions, months[i], "INCOME"),
             expenses |-> MonthTypeTotal(transactions, months[i], "EXPENSE")]])

\* closed-form least squares of yValues against x = 0 .. n-1 (n >= 2)
LeastSquares(yValues) ==
    LET n     == Len(yValues)
        sumX  == SumSeq([i \in 1..n |-> Num(i - 1)])
        sumY  == SumSeq(yValues)
        sumXY == SumSeq([i \in 1..n |-> Mul(Num(i - 1), yValues[i])])
        sumXX == SumSeq([i \in 1..n |-> Num((i - 1) * (i - 1))])
        slope == Div(Sub(Mul(Num(n), sumXY), Mul(sumX, sumY)),
                     Sub(Mul(Num(n), sumXX), Mul(sumX, sumX)))
    IN  CASE Evaluated(<<sumX, sumY, sumXY, sumXX, slope>>) ->
        [base |-> Div(Sub(sumY, Mul(slope, sumX)), Num(n)), slope |-> slope]

calculateTrend(monthlyData) ==
    IF Len(monthlyData) < 2
    THEN [income   |-> [base |-> Num(0), slope |-> Num(0)],
          expenses |-> [base |-> Num(0), slope |-> Num(0)]]
    ELSE [income   |-> LeastSquares([i \in 1..Len(monthlyData) |-> monthlyData[i].income]),
          expenses |-> LeastSquares([i \in 1..Len(monthlyData) |-> monthlyData[i].expenses])]

\* occurrences counted by the while loop of the weekly branch
RECURSIVE WeeklyOccurrences(_, _, _)
WeeklyOccurrences(checkDate, firstDay, lastDay) ==
    IF checkDate > lastDay THEN 0
    ELSE (IF checkDate >= firstDay THEN 1 ELSE 0)
         + WeeklyOccurrences(SetDate(checkDate, GetDate(checkDate) + 7), firstDay, lastDay)

\* (targetMonth.getFullYear() - lastTxDate.getFullYear()) * 12 + (month difference)
MonthsDiff(targetMonth, lastTxDate) ==
    (GetFullYear(targetMonth) - GetFullYear(lastTxDate)) * 12
        + (GetMonth(targetMonth) - GetMonth(lastTxDate))

MinRecurringConfidence == Rat(7, 10)

\* variant: a monthly pattern adds one averageAmount for every month elapsed
\* since its last transaction
ContributionPerMonthElapsed(pattern, targetMonth, type) ==
    LET firstDay == NewDate(GetFullYear(targetMonth), GetMonth(targetMonth), 1)
        lastDay  == NewDate(GetFullYear(targetMonth), GetMonth(targetMonth) + 1, 0)
        nextDate == pattern.nextPredictedDate
    IN  IF pattern.transactions[1].type # type THEN Num(0)
        ELSE IF LT(pattern.confidenceScore, MinRecurringConfidence) THEN Num(0)
        ELSE IF nextDate = <<>> THEN Num(0)
        ELSE IF pattern.frequency = "monthly"
        THEN (IF nextDate[1] >= firstDay /\ nextDate[1] <= lastDay
              THEN pattern.averageAmount
              ELSE IF MonthsDiff(targetMonth, pattern.lastTransactionDate) > 0
                   THEN Mul(pattern.averageAmount,
                            Num(MonthsDiff(targetMonth, pattern.lastTransactionDate)))
                   ELSE Num(0))
        ELSE IF pattern.frequency = "weekly"
        THEN Mul(pattern.averageAmount,
                 Num(WeeklyOccurrences(nextDate[1], firstDay, lastDay)))
        ELSE IF pattern.frequency = "yearly"
        THEN (IF MonthsDiff(targetMonth, pattern.lastTransactionDate) % 12 = 0
              THEN pattern.averageAmount ELSE Num(0))
        ELSE Num(0)

\* what one pattern adds to the total of a target month for one channel
PatternContribution(pattern, targetMonth, type) ==
    LET firstDay == NewDate(GetFullYear(targetMonth), GetMonth(targetMonth), 1)
        lastDay  == NewDate(GetFullYear(targetMonth), GetMonth(targetMonth) + 1, 0)
        nextDate == pattern.nextPredictedDate
    IN  IF pattern.transactions[1].type # type THEN Num(0)
        ELSE IF LT(pattern.confidenceScore, MinRecurringConfidence) THEN Num(0)
        ELSE IF nextDate = <<>> THEN Num(0)
        ELSE IF pattern.frequency = "monthly"
        THEN (IF nextDate[1] >= firstDay /\ nextDate[1] <= lastDay
              THEN pattern.averageAmount
              ELSE IF MonthsDiff(targetMonth, pattern.lastTransactionDate) > 0
                   THEN pattern.averageAmount ELSE Num(0))
        ELSE IF pattern.frequency = "weekly"
        THEN Mul(pattern.averageAmount,
                 Num(WeeklyOccurrences(nextDate[1], firstDay, lastDay)))
        ELSE IF pattern.frequency = "yearly"
        THEN (IF MonthsDiff(targetMonth, pattern.lastTransactionDate) % 12 = 0
              THEN pattern.averageAmount ELSE Num(0))
        ELSE Num(0)

predictRecurringForMonth(patterns, targetMonth, type) ==
    SumSeq([i \in 1..Len(patterns) |-> PatternContribution(patterns[i], targetMonth, type)])

calculateVariance(values) ==
    LET n        == Len(values)
        mean     == Div(SumSeq(values), Num(n))
        variance == Div(SumSeq([i \in 1..n |-> Square(Sub(values[i], mean))]), Num(n))
    IN  IF n < 2 THEN Num(0)
        ELSE CASE Evaluated(<<mean, variance>>) -> Div(variance, Mul(mean, mean))

calculateConfidenceScore(historicalData, forecastDistance, recurringPatterns) ==
    LET dataPoints      == Len(historicalData)
        dataPointsScore == MathMin(Num(1), Rat(dataPoints, 12))
        incomeVariance  == calculateVariance(
                               [i \in 1..dataPoints |-> historicalData[i].income])
        expenseVariance == calculateVariance(
                               [i \in 1..dataPoints |-> historicalData[i].expenses])
        varianceScore   == MathMax(Num(0),
                               Sub(Num(1), Div(Add(incomeVariance, expenseVariance), Num(2))))
        recurringScore  == IF Len(recurringPatterns) > 0
                           THEN Div(SumSeq([i \in 1..Len(recurringPatterns) |->
                                               recurringPatterns[i].confidenceScore]),
                                    Num(Len(recurringPatterns)))
                           ELSE Num(0)
        distanceScore   == MathMax(Num(0), Sub(Num(1), Rat(forecastDistance, 10)))
        confidenceScore == Add(Add(Add(Mul(dataPointsScore, Rat(3, 10)),
                                       Mul(varianceScore, Rat(2, 10))),
                                   Mul(recurringScore, Rat(3, 10))),
                               Mul(distanceScore, Rat(2, 10)))
    IN  CASE Evaluated(<<dataPointsScore, incomeVariance, expenseVariance, varianceScore,
                         recurringScore, distanceScore, confidenceScore>>) ->
        MathMin(Rat(95, 100), MathMax(Rat(3, 10), confidenceScore))

\* x, not clamped
Unclamped(x) == x

\* Math.max(0, x)
ClampNonNegative(x) == MathMax(Num(0), x)

\* the forecast pushed by iteration i of the loop; currentDate is new Date()
MonthForecast(historicalMonthly, trend, recurringPatterns, currentDate, i) ==
    LET forecastDate == SetMonth(currentDate, GetMonth(currentDate) + i)
        at           == Num(Len(historicalMonthly) + i)
        income       == ClampNonNegative(
                            Add(Add(trend.income.base, Mul(trend.income.slope, at)),
                                predictRecurringForMonth(recurringPatterns, forecastDate, "INCOME")))
        expenses     == ClampNonNegative(
                            Add(Add(trend.expenses.base, Mul(trend.expenses.slope, at)),
                                predictRecurringForMonth(recurringPatterns, forecastDate, "EXPENSE")))
    IN  CASE Evaluated(<<forecastDate, income, expenses>>) ->
        [month             |-> MonthKey(forecastDate),
         predictedIncome   |-> income,
         predictedExpenses |-> expenses,
         predictedSavings  |-> Sub(income, expenses),
         confidenceScore   |-> calculateConfidenceScore(historicalMonthly, i, recurringPatterns)]

generateMonthlyForecast(transactions, recurringPatterns, monthsToForecast, currentDate) ==
    LET historicalMonthly == calculateHistoricalMonthlyTotals(transactions)
        trend             == calculateTrend(historicalMonthly)
    IN  CASE Evaluated(<<historicalMonthly, trend>>) ->
        [i \in 1..monthsToForecast |->
            MonthForecast(historicalMonthly, trend, recurringPatterns, currentDate, i)]

\* the caller's patterns after the call: the weekly loop advances checkDate,
\* a copy of nextPredictedDate made by new Date(nextDate), and
\* predictRecurringForMonth reads the other fields without assigning any
PatternsAfterForecast(patterns) == patterns

\* rSquared * 0.8 + Math.min(1, months / 12) * 0.2, capped between 0 and 0.95
CategoryConfidence(yValues, fit) ==
    LET n          == Len(yValues)
        meanY      == Div(SumSeq(yValues), Num(n))
        totalSS    == SumSeq([i \in 1..n |-> Square(Sub(yValues[i], meanY))])
        residualSS == SumSeq([i \in 1..n |->
                          Square(Sub(yValues[i], Add(fit.base, Mul(fit.slope, Num(i - 1)))))])
        rSquared   == Sub(Num(1), Div(residualSS, totalSS))
        raw        == Add(Mul(rSquared, Rat(8, 10)),
                          Mul(MathMin(Num(1), Rat(n, 12)), Rat(2, 10)))
    IN  CASE Evaluated(<<meanY, totalSS, residualSS, rSquared, raw>>) ->
        MathMax(Num(0), MathMin(Rat(95, 100), raw))

\* variant: 'increasing' is tested last and wins when both tests hold
TrendIncreasingLast(slope, meanY) ==
    IF GT(slope, Mul(Rat(5, 100), meanY)) THEN "increasing"
    ELSE IF LT(slope, Mul(Rat(-5, 100), meanY)) THEN "decreasing"
    ELSE "stable"

\* if (slope > 0.05 * mean) 'increasing'; if (slope < -0.05 * mean) 'decreasing':
\* the second assignment overwrites the first
CategoryTrend(slope, meanY) ==
    IF LT(slope, Mul(Rat(-5, 100), meanY)) THEN "decreasing"
    ELSE IF GT(slope, Mul(Rat(5, 100), meanY)) THEN "increasing"
    ELSE "stable"

MinCategoryTxs == 3

\* the entry of one category, once it has enough transactions and months
CategoryForecast(category, categoryTxs) ==
    LET months  == SortByMonth(
                       LET keys == KeysInOrder([i \in 1..Len(categoryTxs) |->
                                                   MonthKey(categoryTxs[i].date)])
                       IN  [i \in 1..Len(keys) |->
                               [month |-> keys[i],
                                total |-> MonthTypeTotal(categoryTxs, keys[i], "EXPENSE")]])
        yValues == [i \in 1..Len(months) |-> months[i].total]
        fit     == LeastSquares(yValues)
        n       == Len(yValues)
    IN  CASE Evaluated(<<months, yValues, fit>>) ->
        [categoryId             |-> category.id,
         categoryName           |-> category.name,
         currentMonthPrediction |-> ClampNonNegative(Add(fit.base, Mul(fit.slope, Num(n)))),
         nextMonthPrediction    |-> ClampNonNegative(Add(fit.base, Mul(fit.slope, Num(n + 1)))),
         trend                  |-> CategoryTrend(fit.slope, Div(SumSeq(yValues), Num(n))),
         confidenceScore        |-> CategoryConfidence(yValues, fit)]

\* transactions.filter(tx => tx.categoryId === category.id): every type counted
CategoryTransactions(transactions, category) ==
    SelectSeq(transactions, LAMBDA tx : tx.categoryId = category.id)

\* transactions.filter(tx => tx.categoryId === category.id && tx.type === 'EXPENSE')
CategoryExpenses(transactions, category) ==
    SelectSeq(transactions, LAMBDA tx : tx.categoryId = category.id /\ tx.type = "EXPENSE")

MonthCount(txs) == Len(KeysInOrder([i \in 1..Len(txs) |-> MonthKey(txs[i].date)]))

RECURSIVE generateCategoryForecasts(_, _)
generateCategoryForecasts(transactions, categories) ==
    IF categories = <<>> THEN <<>>
    ELSE LET categoryTxs == CategoryExpenses(transactions, categories[1])
             forecast    == CategoryForecast(categories[1], categoryTxs)
             rest        == generateCategoryForecasts(transactions, Tail(categories))
         IN  IF Len(categoryTxs) < MinCategoryTxs THEN rest
             ELSE IF MonthCount(categoryTxs) < 2 THEN rest
             ELSE CASE Evaluated(forecast) -> <<forecast>> \o rest

\* ------------------------------------------------------------------------
\* Service calls
\* ------------------------------------------------------------------------
Service(op, arg) ==
    CASE op = "detectRecurringTransactions" -> detectRecurringTransactions(arg[1])
      [] op = "detectAnomalies" -> detectAnomalies(arg[1], arg[2])
      [] op = "detectAnomaliesInDoubles" -> detectAnomaliesInDoubles(arg[1], arg[2])
      [] op = "generateMonthlyForecast" ->
             generateMonthlyForecast(arg[1], arg[2], arg[3], arg[4])
      [] op = "generateCategoryForecasts" -> generateCategoryForecasts(arg[1], arg[2])

\* service.method(arguments)
Call(method, arguments) == Calc(method, arguments, 0, 0, 0)

\* ------------------------------------------------------------------------
\* State: one request to GET /api/insights/advanced, or a direct call of a
\* service function on the same arguments
\* ------------------------------------------------------------------------
VARIABLES
    transactions,        \* prisma.transaction.findMany(...): the engine's input
    categories,          \* prisma.category.findMany(...)
    forecastMonths,      \* the forecastMonths query parameter
    now,                 \* the wall clock: what new Date() returns
    pc,                  \* where the caller stands
    recurringPatterns,   \* result of detectRecurringTransactions
    anomalies,           \* result of detectAnomalies
    monthlyForecasts,    \* result of generateMonthlyForecast
    categoryForecasts,   \* result of generateCategoryForecasts
    repeatedForecasts,   \* result of a second generateMonthlyForecast call
    repeatedPatterns,    \* result of a second detectRecurringTransactions call
    baseline,            \* the input and the anomalies before one amount was replaced
    ticks                \* how often the clock has advanced between the calls

vars == <<transactions, categories, forecastMonths, now, pc, recurringPatterns,
          anomalies, monthlyForecasts, categoryForecasts, repeatedForecasts,
          repeatedPatterns, baseline, ticks>>

Tx(id, description, categoryId, amount, date, type) ==
    [id |-> id, description |-> description, categoryId |-> categoryId,
     amount |-> amount, date |-> date, type |-> type]

\* orderBy: { date: 'desc' } hands the engine the newest transaction first
Reverse(xs) == [i \in 1..Len(xs) |-> xs[Len(xs) + 1 - i]]

Netflix == <<"N">>

Salary == <<"S">>

Rent == <<"R">>

DashedPayee == <<"A", "-", "B">>

PlainId == <<"c">>

IncomeId == <<"d">>

\* an id as @default(uuid()) makes them: groups of characters joined by '-'
UuidId == <<"u", "-", "1">>

Start(txs, cats, months, date) ==
    /\ transactions = txs
    /\ categories = cats
    /\ forecastMonths = months
    /\ now = date
    /\ pc = "request"
    /\ recurringPatterns = <<>>
    /\ anomalies = <<>>
    /\ monthlyForecasts = <<>>
    /\ categoryForecasts = <<>>
    /\ repeatedForecasts = <<>>
    /\ repeatedPatterns = <<>>
    /\ baseline = <<>>
    /\ ticks = 0

\* ------------------------------------------------------------------------
\* Operations
\* ------------------------------------------------------------------------
\* const recurringPatterns = patternService.detectRecurringTransactions(transactions)
DetectRecurring ==
    /\ pc = "request"
    /\ recurringPatterns' = Call("detectRecurringTransactions", <<transactions>>)
    /\ transactions' = ArgumentAfterDetection(transactions)
    /\ pc' = "detected"
    /\ UNCHANGED <<categories, forecastMonths, now, anomalies,
                   monthlyForecasts, categoryForecasts, repeatedForecasts, ticks,
                   repeatedPatterns, baseline>>

\* const anomalies = patternService.detectAnomalies(transactions, recurringPatterns)
DetectAnomalies ==
    /\ pc = "detected"
    /\ anomalies' = Call("detectAnomalies", <<transactions, recurringPatterns>>)
    /\ recurringPatterns' = PatternsAfterAnomalies(recurringPatterns)
    /\ pc' = "scored"
    /\ UNCHANGED <<transactions, categories, forecastMonths, now, monthlyForecasts,
                   categoryForecasts, repeatedForecasts, ticks, repeatedPatterns, baseline>>

\* forecastService.generateMonthlyForecast(transactions, recurringPatterns, forecastMonths)
ForecastMonthly ==
    /\ pc = "scored"
    /\ monthlyForecasts' =
           Call("generateMonthlyForecast",
                <<transactions, recurringPatterns, forecastMonths, now>>)
    /\ recurringPatterns' = PatternsAfterForecast(recurringPatterns)
    /\ pc' = "forecast"
    /\ UNCHANGED <<transactions, categories, forecastMonths, now, anomalies,
                   categoryForecasts, repeatedForecasts, ticks, repeatedPatterns, baseline>>

\* forecastService.generateCategoryForecasts(transactions, categories)
ForecastCategories ==
    /\ pc = "forecast"
    /\ categoryForecasts' = Call("generateCategoryForecasts", <<transactions, categories>>)
    /\ pc' = "done"
    /\ UNCHANGED <<transactions, categories, forecastMonths, now, recurringPatterns,
                   anomalies, monthlyForecasts, repeatedForecasts, ticks,
                   repeatedPatterns, baseline>>

\* generateMonthlyForecast(transactions, [], monthsToForecast): a direct call
\* with an empty pattern list
ForecastWithoutPatterns ==
    /\ pc = "request"
    /\ monthlyForecasts' =
           Call("generateMonthlyForecast", <<transactions, <<>>, forecastMonths, now>>)
    /\ pc' = "direct"
    /\ UNCHANGED <<transactions, categories, forecastMonths, now, recurringPatterns,
                   anomalies, categoryForecasts, repeatedForecasts, ticks,
                   repeatedPatterns, baseline>>

MaxTicks == 1

TickDays == {1, 30}

\* time passes between two calls
Tick ==
    /\ pc \in {"done", "direct"}
    /\ ticks < MaxTicks
    /\ \E days \in TickDays : now' = now + days
    /\ ticks' = ticks + 1
    /\ UNCHANGED <<transactions, categories, forecastMonths, pc, recurringPatterns,
                   anomalies, monthlyForecasts, categoryForecasts, repeatedForecasts,
                   repeatedPatterns, baseline>>

\* the same call of generateMonthlyForecast once more, on the same arguments
ForecastAgain ==
    /\ pc \in {"done", "direct"}
    /\ repeatedForecasts' =
           Call("generateMonthlyForecast",
                <<transactions, recurringPatterns, forecastMonths, now>>)
    /\ recurringPatterns' = PatternsAfterForecast(recurringPatterns)
    /\ pc' = "repeated"
    /\ UNCHANGED <<transactions, categories, forecastMonths, now, anomalies,
                   monthlyForecasts, categoryForecasts, ticks, repeatedPatterns, baseline>>

\* the same call of detectRecurringTransactions once more, on the same array
DetectAgain ==
    /\ pc = "detected"
    /\ repeatedPatterns' = Call("detectRecurringTransactions", <<transactions>>)
    /\ transactions' = ArgumentAfterDetection(transactions)
    /\ pc' = "redetected"
    /\ UNCHANGED <<categories, forecastMonths, now, recurringPatterns, anomalies,
                   monthlyForecasts, categoryForecasts, repeatedForecasts, ticks, baseline>>

NextDetector == DetectRecurring \/ DetectAnomalies

NextRepeat == DetectRecurring \/ DetectAgain

Raises == {50, 150}

\* the caller replaces the amount of one transaction by a larger one and
\* keeps what detectAnomalies returned before
RaiseAmount ==
    /\ pc = "scored"
    /\ baseline = <<>>
    /\ \E t \in 1..Len(transactions), by \in Raises :
           /\ transactions' = [transactions EXCEPT ![t].amount = @ + by]
           /\ baseline' = <<[transactions |-> transactions, anomalies |-> anomalies,
                             raised |-> t]>>
    /\ pc' = "raised"
    /\ UNCHANGED <<categories, forecastMonths, now, recurringPatterns, anomalies,
                   monthlyForecasts, categoryForecasts, repeatedForecasts,
                   repeatedPatterns, ticks>>

\* patternService.detectAnomalies(transactions, recurringPatterns) on the
\* changed transactions
ScoreRaised ==
    /\ pc = "raised"
    /\ anomalies' = Call("detectAnomalies", <<transactions, recurringPatterns>>)
    /\ recurringPatterns' = PatternsAfterAnomalies(recurringPatterns)
    /\ pc' = "rescored"
    /\ UNCHANGED <<transactions, categories, forecastMonths, now, monthlyForecasts,
                   categoryForecasts, repeatedForecasts, repeatedPatterns, baseline, ticks>>

\* generateMonthlyForecast(transactions, [], forecastMonths) at the same time:
\* the forecast of the request without its recurring contribution
ForecastTrendOnly ==
    /\ pc = "forecast"
    /\ repeatedForecasts' =
           Call("generateMonthlyForecast", <<transactions, <<>>, forecastMonths, now>>)
    /\ pc' = "compared"
    /\ UNCHANGED <<transactions, categories, forecastMonths, now, recurringPatterns,
                   anomalies, monthlyForecasts, categoryForecasts, repeatedPatterns,
                   baseline, ticks>>

NextCompared == DetectRecurring \/ DetectAnomalies \/ ForecastMonthly \/ ForecastTrendOnly

\* patternService.detectAnomalies(transactions, recurringPatterns), the
\* category scores in doubles
DetectAnomaliesInDoubles ==
    /\ pc = "detected"
    /\ anomalies' = Call("detectAnomaliesInDoubles", <<transactions, recurringPatterns>>)
    /\ recurringPatterns' = PatternsAfterAnomalies(recurringPatterns)
    /\ pc' = "scored"
    /\ UNCHANGED <<transactions, categories, forecastMonths, now, monthlyForecasts,
                   categoryForecasts, repeatedForecasts, ticks, repeatedPatterns, baseline>>

\* the same call on the changed transactions
ScoreRaisedInDoubles ==
    /\ pc = "raised"
    /\ anomalies' = Call("detectAnomaliesInDoubles", <<transactions, recurringPatterns>>)
    /\ recurringPatterns' = PatternsAfterAnomalies(recurringPatterns)
    /\ pc' = "rescored"
    /\ UNCHANGED <<transactions, categories, forecastMonths, now, monthlyForecasts,
                   categoryForecasts, repeatedForecasts, repeatedPatterns, baseline, ticks>>

NextInDoubles == DetectRecurring \/ DetectAnomaliesInDoubles

NextRaiseInDoubles ==
    DetectRecurring \/ DetectAnomaliesInDoubles \/ RaiseAmount \/ ScoreRaisedInDoubles

NextRaise == DetectRecurring \/ DetectAnomalies \/ RaiseAmount \/ ScoreRaised

Next ==
    \/ DetectRecurring
    \/ DetectAnomalies
    \/ ForecastMonthly
    \/ ForecastCategories
    \/ ForecastWithoutPatterns
    \/ Tick
    \/ ForecastAgain

\* ------------------------------------------------------------------------
\* Inputs: months of salary and rent, the history the forecasts are made from
\* ------------------------------------------------------------------------
MaxMonths == 8

MaxForecast == 3

\* 0: a user without a transaction in the months asked for
Months == {0, 1, 2, 3, MaxMonths}

Incomes == {0, 3000}

IncomeSteps == {-400, 0}

Expenses == {-50, 0, 2000}

ExpenseSteps == {0, 100}

\* day d of month m (0-based, counted on from January) of the year of the inputs
Day(m, d) == NewDate(2025, m, d)

\* month m (0-based) holds one INCOME of i0 + m * di on the 1st and one EXPENSE
\* of e0 + m * de on the 5th
History(n, i0, di, e0, de) ==
    [j \in 1..(2 * n) |->
        LET m == (j - 1) \div 2
        IN  IF j % 2 = 1
            THEN Tx(j, Salary, IncomeId, i0 + m * di, Day(m, 1), "INCOME")
            ELSE Tx(j, Rent, PlainId, e0 + m * de, Day(m, 5), "EXPENSE")]

Categories == <<[id |-> PlainId, name |-> "Rent"], [id |-> IncomeId, name |-> "Salary"]>>

\* the request comes on the 20th or on the last day of the newest month
InitHistory ==
    \E n \in Months, i0 \in Incomes, di \in IncomeSteps,
       e0 \in Expenses, de \in ExpenseSteps, k \in {1, MaxForecast} :
        \E date \in {Day(n - 1, 20), Day(n, 0)} :
            Start(Reverse(History(n, i0, di, e0, de)), Categories, k, date)

Spec == InitHistory /\ [][Next]_vars

\* ------------------------------------------------------------------------
\* Inputs: one payee and category paid at varying gaps and amounts
\* ------------------------------------------------------------------------
MaxTxs == 3

Gaps == {4, 7, 9, 30}

Amounts == {-10, 0, 10}

\* the dates of a group that starts on 1 January and goes on by the gaps
RECURSIVE DatesAfter(_, _)
DatesAfter(date, gaps) ==
    IF gaps = <<>> THEN <<date>> ELSE <<date>> \o DatesAfter(date + gaps[1], Tail(gaps))

Payments(gaps, amounts) ==
    [i \in 1..Len(amounts) |->
        Tx(i, Netflix, PlainId, amounts[i], DatesAfter(Day(0, 1), gaps)[i], "EXPENSE")]

InitRecurring ==
    \E n \in 2..MaxTxs :
        \E gaps \in [1..(n - 1) -> Gaps], amounts \in [1..n -> Amounts] :
            Start(Reverse(Payments(gaps, amounts)), Categories, 1,
                  DatesAfter(Day(0, 1), gaps)[n] + 1)

SpecRecurring == InitRecurring /\ [][NextDetector]_vars

\* ------------------------------------------------------------------------
\* Inputs: one subscription of 15.00, paid at varying gaps or on the 1st of
\* consecutive months
\* ------------------------------------------------------------------------
MaxGaps == 3

CadenceGaps == {0, 4, 5, 7, 9, 10, 24, 25, 30, 35, 36, 350, 365, 380, 381}

Years == {2023, 2024}

\* four payments, on the 1st of month (0-based) and of the three after it
Subscription(year, month) ==
    [i \in 1..4 |->
        Tx(i, Netflix, PlainId, 15, NewDate(year, month + i - 1, 1), "EXPENSE")]

InitCadence ==
    \/ \E n \in 1..MaxGaps :
           \E gaps \in [1..n -> CadenceGaps] :
               Start(Reverse(Payments(gaps, [i \in 1..(n + 1) |-> 15])), Categories, 1,
                     DatesAfter(Day(0, 1), gaps)[n + 1] + 1)
    \/ \E year \in Years, month \in 0..11 :
           Start(Reverse(Subscription(year, month)), Categories, 1,
                 NewDate(year, month + 3, 2))

SpecCadence == InitCadence /\ [][NextDetector]_vars

\* ------------------------------------------------------------------------
\* Inputs: two payees, each paid at one gap, under varying names and ids
\* ------------------------------------------------------------------------
Payees == {Netflix, DashedPayee}

CategoryIds == {<<>>, PlainId, UuidId}

\* payment i of the first payee, followed a day later by that of the second
TwoPayees(n, gap, p1, c1, p2, c2) ==
    [j \in 1..(2 * n) |->
        LET i == (j + 1) \div 2
        IN  IF j % 2 = 1
            THEN Tx(j, p1, c1, 15, Day(0, 1) + (i - 1) * gap, "EXPENSE")
            ELSE Tx(j, p2, c2, 15, Day(0, 2) + (i - 1) * gap, "EXPENSE")]

\* n payments of one payee and category, and one more, a gap later, that
\* differs from them in payee or category
WithStray(n, gap, p1, c1, p2, c2) ==
    [j \in 1..(n + 1) |->
        IF j <= n
        THEN Tx(j, p1, c1, 15, Day(0, 1) + (j - 1) * gap, "EXPENSE")
        ELSE Tx(j, p2, c2, 15, Day(0, 1) + n * gap, "EXPENSE")]

InitKeys ==
    \E n \in 2..MaxTxs, gap \in {7, 30}, p1 \in Payees, p2 \in Payees,
       c1 \in CategoryIds, c2 \in CategoryIds :
        \/ Start(Reverse(TwoPayees(n, gap, p1, c1, p2, c2)), Categories, 1,
                 Day(0, 3) + (n - 1) * gap)
        \/ /\ p1 # p2 \/ c1 # c2
           /\ Start(Reverse(WithStray(n, gap, p1, c1, p2, c2)), Categories, 1,
                    Day(0, 3) + n * gap)

SpecKeys == InitKeys /\ [][NextDetector]_vars

SpecRepeat == InitKeys /\ [][NextRepeat]_vars

\* ------------------------------------------------------------------------
\* Inputs: the transactions of a category, each under a payee of its own
\* ------------------------------------------------------------------------
MaxGroup == 6

ScenarioB == <<50, 52, 48, 51, 200>>

Levels == {0, 50}

Skewed == <<10, 10, 10, 10, 10, 90>>

Letters ==
    <<"a", "b", "c", "d", "e", "f", "g", "h", "i", "j", "k", "l", "m",
      "n", "o", "p", "q", "r", "s", "t", "u", "v", "w", "x", "y", "z">>

\* transaction i of a day-by-day run of amounts, numbered from first on
Purchases(first, categoryId, amounts) ==
    [i \in 1..Len(amounts) |->
        Tx(first + i - 1, <<Letters[first + i - 1]>>, categoryId, amounts[i],
           Day(0, first + i - 1), "EXPENSE")]

\* a level amount, but the amounts of ScenarioB at the places in outliers
Mixed(n, level, outliers) ==
    [i \in 1..n |-> IF i \in outliers THEN ScenarioB[((i - 1) % 5) + 1] ELSE level]

\* four amounts: a group too small to be scored
Small == <<10, 10, 10, 90>>

\* the sizes at which one amount apart from n - 1 equal ones scores exactly
\* 2, 3 and 4 (5, 10 and 17), and the sizes next above them
SpikedSizes == {5, 6, 10, 11, 17, 18}

Spikes == {0, 200}

\* n - 1 amounts of level and one of spike
Spiked(n, level, spike) == [i \in 1..n |-> IF i = n THEN spike ELSE level]

InitCategory ==
    \/ \E n \in MinCategorySample..MaxGroup, level \in Levels, categoryId \in {<<>>, PlainId} :
           \E outliers \in SUBSET (1..n), other \in {<<>>, Small, Skewed} :
               Start(Reverse(Purchases(1, categoryId, Mixed(n, level, outliers))
                                 \o Purchases(n + 1, IncomeId, other)),
                     Categories, 1, Day(0, 20))
    \/ \E n \in SpikedSizes, level \in Levels, spike \in Spikes,
          other \in {<<>>, Small, Skewed} :
           Start(Reverse(Purchases(1, PlainId, Spiked(n, level, spike))
                             \o Purchases(n + 1, IncomeId, other)),
                 Categories, 1, Day(0, 20))

SpecCategory == InitCategory /\ [][NextDetector]_vars

\* a category group of equal amounts but for its last one, and at times its
\* first one, beside a second group
InitRaise ==
    \E n \in SpikedSizes, level \in Levels, spike \in Spikes, first \in {0, 100} :
        Start(Reverse(Purchases(1, PlainId,
                                [Spiked(n, level, spike) EXCEPT ![1] = level + first])
                          \o Purchases(n + 1, IncomeId, Skewed)),
              Categories, 1, Day(0, 20))

SpecRaise == InitRaise /\ [][NextRaise]_vars

\* ------------------------------------------------------------------------
\* Inputs: categories with a few expenses over one or two months, and refunds
\* ------------------------------------------------------------------------
MaxSpend == 4

SpendMonths == {1, 2}

Refunds == {0, 2}

\* spent expenses of a category, spread in turn over the first months months
\* of the year, and refunded INCOME transactions of it, one a month
Spending(first, payee, categoryId, spent, months, refunded) ==
    [j \in 1..(spent + refunded) |->
        IF j <= spent
        THEN Tx(first + j, payee, categoryId, 20 * j, Day((j - 1) % months, 5 + j),
                "EXPENSE")
        ELSE Tx(first + j, payee, categoryId, 15, Day(j - spent - 1, 3), "INCOME")]

\* two categories the caller supplies and one it leaves out
InitSpending ==
    \E e1 \in 0..MaxSpend, e2 \in 0..MaxSpend, m1 \in SpendMonths, m2 \in SpendMonths,
       r1 \in Refunds, r2 \in Refunds, left \in {0, 3} :
        Start(Spending(0, Rent, PlainId, e1, m1, r1)
                  \o Spending(MaxSpend + 2, Salary, IncomeId, e2, m2, r2)
                  \o Spending(2 * (MaxSpend + 2), Netflix, UuidId, left, 2, 0),
              Categories, 1, Day(2, 0))

\* GET /api/insights/advanced: the four service calls of one request
NextRoute == DetectRecurring \/ DetectAnomalies \/ ForecastMonthly \/ ForecastCategories

SpecSpending == InitSpending /\ [][NextRoute]_vars

\* ------------------------------------------------------------------------
\* Inputs: one payee paid at a steady gap and amount, but for the first
\* amount, the last amount and the last gap
\* ------------------------------------------------------------------------
MaxRun == 25

\* <<steady payments, steady gap, last gap>>
Cadences ==
    {<<5, 7, 7>>, <<5, 7, 10>>, <<5, 5, 5>>, <<5, 9, 9>>, <<8, 6, 4>>,
     <<5, 30, 30>>, <<5, 26, 24>>, <<5, 26, 23>>, <<5, 34, 36>>, <<5, 34, 37>>,
     <<11, 33, 42>>, <<11, 33, 43>>, <<MaxRun, 34, 48>>, <<MaxRun, 34, 49>>,
     <<5, 365, 365>>}

\* 120 is the steady amount
FirstAmounts == {120, 600}

LastAmounts == {120, 150, 151, 200, 201, 300, 301, 0, -600, -700}

\* n payments a gap apart and one more, lastGap after them
Drifting(n, gap, lastGap, firstAmount, lastAmount) ==
    [i \in 1..(n + 1) |->
        Tx(i, Netflix, PlainId,
           IF i = n + 1 THEN lastAmount ELSE IF i = 1 THEN firstAmount ELSE 120,
           IF i = n + 1 THEN Day(0, 1) + (n - 1) * gap + lastGap
           ELSE Day(0, 1) + (i - 1) * gap,
           "EXPENSE")]

InitDrifting ==
    \E c \in Cadences, firstAmount \in FirstAmounts, lastAmount \in LastAmounts :
        Start(Reverse(Drifting(c[1], c[2], c[3], firstAmount, lastAmount)),
              Categories, 1, Day(0, 2) + c[1] * c[2] + c[3])

SpecDrifting == InitDrifting /\ [][NextDetector]_vars

\* ------------------------------------------------------------------------
\* Inputs: one payee paid 15.00 on a schedule, the first payment of one type
\* and the later ones of another or the same, asked about at varying dates
\* ------------------------------------------------------------------------
\* <<first date, gaps>>: the 5th of four months, the last day of three months,
\* four weeks, three loose weeks, three years
Schedules ==
    {<<Day(0, 5), <<31, 28, 31>>>>, <<NewDate(2024, 10, 30), <<31, 31>>>>,
     <<Day(0, 1), <<7, 7, 7>>>>, <<Day(0, 1), <<7, 7, 10>>>>,
     <<Day(0, 10), <<365, 365>>>>}

\* <<type of the first payment, type of the later ones>>
TypeMixes ==
    {<<"EXPENSE", "EXPENSE">>, <<"INCOME", "INCOME">>, <<"TRANSFER", "TRANSFER">>,
     <<"EXPENSE", "INCOME">>, <<"TRANSFER", "EXPENSE">>}

\* the request comes so many days after the last payment
AskedAfter == {-45, 0, 1}

Scheduled(first, gaps, mix) ==
    [i \in 1..(Len(gaps) + 1) |->
        Tx(i, Netflix, PlainId, 15, DatesAfter(first, gaps)[i],
           IF i = 1 THEN mix[1] ELSE mix[2])]

InitChannels ==
    \E s \in Schedules, mix \in TypeMixes, after \in AskedAfter, k \in {1, MaxForecast} :
        Start(Reverse(Scheduled(s[1], s[2], mix)), Categories, k,
              DatesAfter(s[1], s[2])[Len(s[2]) + 1] + after)

SpecChannels == InitChannels /\ [][NextCompared]_vars

\* ------------------------------------------------------------------------
\* Inputs: a category group of equal amounts and one amount apart, which is
\* the newest or the oldest of the group, scored in doubles
\* ------------------------------------------------------------------------
Apart == {7, 21, 200}

\* n - 1 amounts of level and one of spike, the newest or the oldest
OneApart(n, level, spike, newest) ==
    IF newest THEN Spiked(n, level, spike) ELSE Reverse(Spiked(n, level, spike))

InitDoubles ==
    \E n \in SpikedSizes, level \in Levels, spike \in Apart, newest \in BOOLEAN :
        Start(Reverse(Purchases(1, PlainId, OneApart(n, level, spike, newest))),
              Categories, 1, Day(0, 20))

SpecDoubles == InitDoubles /\ [][NextInDoubles]_vars

\* the smallest group that is scored, one of its amounts then replaced
InitRaiseInDoubles ==
    \E level \in Levels, spike \in Apart, newest \in BOOLEAN :
        Start(Reverse(Purchases(1, PlainId,
                                OneApart(MinCategorySample, level, spike, newest))),
              Categories, 1, Day(0, 20))

SpecRaiseInDoubles == InitRaiseInDoubles /\ [][NextRaiseInDoubles]_vars

\* ------------------------------------------------------------------------
\* Claims
\* ------------------------------------------------------------------------
\* x is a number between lo and hi
Within(x, lo, hi) == GE(x, lo) /\ LE(x, hi)

\* the amounts of the input, oldest transaction first
AmountsGiven ==
    [i \in 1..Len(transactions) |-> transactions[Len(transactions) + 1 - i].amount]

CategoryLevel(anomaly) == anomaly.reason.kind = "category amount"

\* C1 as the specification states it: on five transactions of one category
\* with the amounts 50, 52, 48, 51, 200 and no patterns, detectAnomalies
\* returns a category-level anomaly of severity 'high' for the 200 transaction.
ScenarioBFlaggedHigh ==
    (pc = "scored" /\ AmountsGiven = ScenarioB /\ recurringPatterns = <<>>)
        => \E i \in 1..Len(anomalies) :
               /\ CategoryLevel(anomalies[i])
               /\ anomalies[i].transaction.amount = 200
               /\ anomalies[i].severity = "high"

\* C1 as amended: on that input detectAnomalies returns no category-level
\* anomaly, neither for the 200 transaction nor for another one.
ScenarioBNotFlagged ==
    (pc = "scored" /\ AmountsGiven = ScenarioB /\ recurringPatterns = <<>>)
        => \A i \in 1..Len(anomalies) : ~CategoryLevel(anomalies[i])

ScenarioBScored ==
    pc = "scored" /\ AmountsGiven = ScenarioB /\ recurringPatterns = <<>>

\* C2: every CategoryForecast of generateCategoryForecasts has a
\* confidenceScore that is a number of [0, 0.95].
CategoryConfidenceInRange ==
    \A i \in 1..Len(categoryForecasts) :
        Within(categoryForecasts[i].confidenceScore, Num(0), Rat(95, 100))

\* C3: every MonthlyForecast of generateMonthlyForecast has a confidenceScore
\* that is a number of [0.3, 0.95].
MonthlyConfidenceInRange ==
    \A i \in 1..Len(monthlyForecasts) :
        Within(monthlyForecasts[i].confidenceScore, Rat(3, 10), Rat(95, 100))

\* C4: no RecurringPattern returned by detectRecurringTransactions has a
\* confidenceScore of 0.6 or less.
NoWeakPattern ==
    \A i \in 1..Len(recurringPatterns) :
        ~LE(recurringPatterns[i].confidenceScore, Rat(6, 10))

BarelyEmitted ==
    /\ pc = "detected"
    /\ \E i \in 1..Len(recurringPatterns) :
           LT(recurringPatterns[i].confidenceScore, Rat(7, 10))

\* C5: in every MonthlyForecast predictedIncome and predictedExpenses are at
\* least 0, and predictedSavings is predictedIncome - predictedExpenses.
ForecastAmountsClamped ==
    \A i \in 1..Len(monthlyForecasts) :
        LET forecast == monthlyForecasts[i]
        IN  /\ GE(forecast.predictedIncome, Num(0))
            /\ GE(forecast.predictedExpenses, Num(0))
            /\ forecast.predictedSavings
                   = Sub(forecast.predictedIncome, forecast.predictedExpenses)

NegativePatternClamped ==
    /\ pc = "forecast"
    /\ \E i \in 1..Len(recurringPatterns) :
           LT(recurringPatterns[i].averageAmount, Num(0))
    /\ \E i \in 1..Len(monthlyForecasts) :
           /\ monthlyForecasts[i].predictedIncome = Num(0)
           /\ LT(monthlyForecasts[i].predictedSavings, Num(0))

\* C6: for a recurring pattern whose averageAmount is 0 detectAnomalies emits
\* no amount-deviation anomaly, and no anomaly it returns carries an
\* amountDeviation that is NaN or infinite.
ZeroAverageSkipped ==
    pc = "scored" =>
        /\ \A i \in 1..Len(anomalies) :
               anomalies[i].amountDeviation # <<>>
                   => IsFinite(anomalies[i].amountDeviation[1])
        /\ \A j \in 1..Len(recurringPatterns) :
               recurringPatterns[j].averageAmount = Num(0)
                   => \A i \in 1..Len(anomalies) :
                          ~(/\ anomalies[i].reason.kind = "recurring amount"
                            /\ anomalies[i].reason.payee = recurringPatterns[j].payee)

\* the input holds five or more transactions of the category, all of one amount
EqualGroup(key) ==
    LET group == CategoryMembers(transactions, key)
    IN  /\ Len(group) >= 5
        /\ \A i \in 1..Len(group) : group[i].amount = group[1].amount

\* C7: detectAnomalies emits no category-level anomaly for a transaction of
\* a category group of five or more transactions whose amounts are all equal.
EqualGroupNotFlagged ==
    pc = "scored" =>
        \A i \in 1..Len(anomalies) :
            CategoryLevel(anomalies[i])
                => ~EqualGroup(CategoryOrSentinel(anomalies[i].transaction.categoryId))

EqualGroupBesideFlagged ==
    /\ pc = "scored"
    /\ \E t \in 1..Len(transactions) :
           EqualGroup(CategoryOrSentinel(transactions[t].categoryId))
    /\ \E i \in 1..Len(anomalies) : CategoryLevel(anomalies[i])

\* C8: every RecurringPattern has the payee of its member transactions (their
\* description) and their categoryId, or 'uncategorized' where they have none.
PatternNamesItsGroup ==
    \A i \in 1..Len(recurringPatterns) :
        LET pattern == recurringPatterns[i]
        IN  \A t \in 1..Len(pattern.transactions) :
                /\ pattern.payee = pattern.transactions[t].description
                /\ pattern.categoryId
                       = CategoryOrSentinel(pattern.transactions[t].categoryId)

\* two or more months, each with an income of 3000 and an expense of 2000
FlatHistory ==
    /\ Len(transactions) >= 4
    /\ \A t \in 1..Len(transactions) :
           transactions[t].amount = IF transactions[t].type = "INCOME" THEN 3000 ELSE 2000

\* C9: on a flat history generateMonthlyForecast with monthsToForecast = 3
\* returns 3 forecasts, each of 3000 income, 2000 expenses and 1000 savings,
\* with an empty pattern list and with the patterns detected in that history.
FlatHistoryForecast ==
    (FlatHistory /\ forecastMonths = 3 /\ pc \in {"forecast", "direct"})
        => /\ Len(monthlyForecasts) = 3
           /\ \A i \in 1..Len(monthlyForecasts) :
                  /\ monthlyForecasts[i].predictedIncome = Num(3000)
                  /\ monthlyForecasts[i].predictedExpenses = Num(2000)
                  /\ monthlyForecasts[i].predictedSavings = Num(1000)

\* C10: two calls of generateMonthlyForecast with the same transactions,
\* patterns and monthsToForecast return the same list of forecasts, whatever
\* the wall-clock dates of the two calls.
ForecastRepeats == pc = "repeated" => repeatedForecasts = monthlyForecasts

\* C11: called with an empty transaction collection, generateMonthlyForecast
\* returns an empty array for every monthsToForecast >= 1 and every pattern
\* list, and generateCategoryForecasts returns an empty array for every
\* category list.
EmptyHistoryNoForecasts ==
    transactions = <<>> =>
        /\ pc \in {"forecast", "direct", "done"} => monthlyForecasts = <<>>
        /\ pc = "done" => categoryForecasts = <<>>

\* C19: called with an empty transaction collection, detectRecurringTransactions
\* returns an empty array, and so does detectAnomalies with an empty pattern
\* list.
EmptyInputNoDetections ==
    transactions = <<>> =>
        /\ pc = "detected" => recurringPatterns = <<>>
        /\ pc = "scored" => recurringPatterns = <<>> /\ anomalies = <<>>

EmptyInputScored == transactions = <<>> /\ pc = "scored"

\* the dates of the input, oldest transaction first
DatesGiven ==
    [i \in 1..Len(transactions) |-> transactions[Len(transactions) + 1 - i].date]

\* the input is four payments of 15.00 to one payee in one category, on the
\* 1st of four consecutive months
FirstOfFourMonths ==
    /\ Len(transactions) = 4
    /\ \A i \in 1..4 :
           /\ transactions[i].amount = 15
           /\ transactions[i].description = transactions[1].description
           /\ transactions[i].categoryId = transactions[1].categoryId
           /\ DatesGiven[i] = NewDate(GetFullYear(DatesGiven[1]),
                                      GetMonth(DatesGiven[1]) + i - 1, 1)

\* C13: for four transactions of one description, category and amount 15.00
\* on the 1st of four consecutive months detectRecurringTransactions returns
\* one pattern: monthly, averageAmount 15.00, confidenceScore above 0.8 and
\* nextPredictedDate the 1st of the fifth month.
SubscriptionDetected ==
    (pc = "detected" /\ FirstOfFourMonths) =>
        /\ Len(recurringPatterns) = 1
        /\ recurringPatterns[1].frequency = "monthly"
        /\ recurringPatterns[1].averageAmount = Num(15)
        /\ GT(recurringPatterns[1].confidenceScore, Rat(8, 10))
        /\ recurringPatterns[1].nextPredictedDate
               = <<NewDate(GetFullYear(DatesGiven[1]), GetMonth(DatesGiven[1]) + 4, 1)>>

\* the four months run from November of a leap year's eve to February
SubscriptionOverNewYear ==
    /\ pc = "detected"
    /\ FirstOfFourMonths
    /\ Civil(DatesGiven[1]) = [y |-> 2023, m |-> 10, d |-> 1]
    /\ Civil(DatesGiven[4]) = [y |-> 2024, m |-> 1, d |-> 1]

\* the day gaps between the transactions of the input, oldest first
GapsGiven == [i \in 1..(Len(transactions) - 1) |-> DatesGiven[i + 1] - DatesGiven[i]]

RECURSIVE IntSum(_)
IntSum(xs) == IF xs = <<>> THEN 0 ELSE xs[1] + IntSum(Tail(xs))

\* what the rule of C14 gives for gaps of sum s and sum of squares q, m gaps
\* in all: the mean is s / m and the variance (m * q - s * s) / (m * m)
GapRule(m, s, q) ==
    LET stdDev == Sqrt(Rat(m * q - s * s, m * m))
    IN  IF m * q - s * s >= 9 * m * m
        THEN [regular |-> FALSE, frequency |-> "irregular", confidenceScore |-> Num(0)]
        ELSE IF 25 * m <= s /\ s <= 35 * m
        THEN [regular |-> TRUE, frequency |-> "monthly",
              confidenceScore |-> Sub(Rat(9, 10), Div(stdDev, Num(30)))]
        ELSE IF 5 * m <= s /\ s <= 9 * m
        THEN [regular |-> TRUE, frequency |-> "weekly",
              confidenceScore |-> Sub(Rat(9, 10), Div(stdDev, Num(7)))]
        ELSE IF 350 * m <= s /\ s <= 380 * m
        THEN [regular |-> TRUE, frequency |-> "yearly",
              confidenceScore |-> Sub(Rat(9, 10), Div(stdDev, Num(365)))]
        ELSE [regular |-> TRUE, frequency |-> "irregular",
              confidenceScore |-> Sub(Rat(5, 10), Div(stdDev, Num(30)))]

ExpectedClass ==
    GapRule(Len(GapsGiven), IntSum(GapsGiven),
            IntSum([i \in 1..Len(GapsGiven) |-> GapsGiven[i] * GapsGiven[i]]))

\* x and y are the same number
SameNumber(x, y) == GE(x, y) /\ LE(x, y)

\* C14: a group whose gap standard deviation is below 3 days is classified by
\* its mean gap: [25, 35] monthly with confidence 0.9 - stdDev/30, [5, 9]
\* weekly with 0.9 - stdDev/7, [350, 380] yearly with 0.9 - stdDev/365,
\* anything else irregular with 0.5 - stdDev/30; a group whose gap standard
\* deviation is 3 days or more produces no pattern.
CadenceClassified ==
    (pc = "detected" /\ Len(transactions) >= 2) =>
        LET expected  == ExpectedClass
            group     == WithPayee(transactions)
            candidate == GroupPattern(GroupKey(group[1]), group)
        IN  /\ expected.regular =>
                /\ candidate.frequency = expected.frequency
                /\ SameNumber(candidate.confidenceScore, expected.confidenceScore)
            /\ Len(recurringPatterns)
                   = IF expected.regular /\ GT(expected.confidenceScore, Rat(6, 10))
                     THEN 1 ELSE 0
            /\ \A i \in 1..Len(recurringPatterns) :
                   /\ recurringPatterns[i].frequency = expected.frequency
                   /\ SameNumber(recurringPatterns[i].confidenceScore,
                                 expected.confidenceScore)
            /\ (GapsGiven = <<30, 30, 30>> \/ GapsGiven = <<7, 7, 7>>) =>
                   /\ Len(recurringPatterns) = 1
                   /\ recurringPatterns[1].frequency
                          = IF GapsGiven[1] = 30 THEN "monthly" ELSE "weekly"
                   /\ recurringPatterns[1].confidenceScore = Rat(9, 10)

\* a weekly group of uneven gaps, beside which the bands' edges are reached
UnevenWeeklyClassified ==
    /\ pc = "detected"
    /\ GapsGiven = <<5, 7, 9>>
    /\ Len(recurringPatterns) = 1
    /\ recurringPatterns[1].frequency = "weekly"
    /\ LT(recurringPatterns[1].confidenceScore, Rat(9, 10))

\* the transactions of the input that have the payee (description) and the
\* category of tx
GroupSize(tx) ==
    Cardinality({t \in 1..Len(transactions) :
                    /\ transactions[t].description = tx.description
                    /\ transactions[t].categoryId = tx.categoryId})

\* C17: every RecurringPattern has at least 2 member transactions, and no
\* transaction that is alone in its (payee, category) group is in a pattern.
PatternsHaveTwoMembers ==
    \A i \in 1..Len(recurringPatterns) :
        /\ Len(recurringPatterns[i].transactions) >= 2
        /\ \A t \in 1..Len(recurringPatterns[i].transactions) :
               GroupSize(recurringPatterns[i].transactions[t]) >= 2

\* a pattern was found beside a payment that is alone in its group
PatternBesideSingleton ==
    /\ pc = "detected"
    /\ Len(recurringPatterns) = 1
    /\ \E t \in 1..Len(transactions) :
           /\ GroupSize(transactions[t]) = 1
           /\ transactions[t].description = recurringPatterns[1].transactions[1].description

CategoryGroup(tx) ==
    {t \in 1..Len(transactions) :
        CategoryOrSentinel(transactions[t].categoryId) = CategoryOrSentinel(tx.categoryId)}

\* C16: a category group with fewer than 5 members contributes no
\* category-level anomaly to the result of detectAnomalies.
SmallGroupNotScored ==
    pc = "scored" =>
        \A i \in 1..Len(anomalies) :
            CategoryLevel(anomalies[i])
                => Cardinality(CategoryGroup(anomalies[i].transaction)) >= 5

\* a group of four with an amount far from the others, beside a flagged one
SmallGroupBesideFlagged ==
    /\ pc = "scored"
    /\ \E t \in 1..Len(transactions) :
           /\ Cardinality(CategoryGroup(transactions[t])) = 4
           /\ transactions[t].amount = 90
    /\ \E i \in 1..Len(anomalies) : CategoryLevel(anomalies[i])

\* the category-level anomalies reported for transaction t of the input
ReportsOf(t) ==
    {i \in 1..Len(anomalies) :
        CategoryLevel(anomalies[i]) /\ anomalies[i].transaction.id = transactions[t].id}

\* for transaction t in a group of n amounts of sum s and sum of squares q:
\* the mean is s / n, the variance (n * q - s * s) / (n * n), and so the
\* squared score is (n * x - s)^2 / (n * q - s * s)
ScoreAbove(t, limit) ==
    LET group == CategoryGroup(transactions[t])
        n     == Cardinality(group)
        s     == IntSum([i \in 1..Len(transactions) |->
                            IF i \in group THEN transactions[i].amount ELSE 0])
        q     == IntSum([i \in 1..Len(transactions) |->
                            IF i \in group THEN transactions[i].amount * transactions[i].amount
                            ELSE 0])
        x     == transactions[t].amount
    IN  /\ n * q - s * s > 0
        /\ (n * x - s) * (n * x - s) > limit * limit * (n * q - s * s)

\* the same score as a number: |x - s / n| over the root of the variance
ScoreGiven(t) ==
    LET group == CategoryGroup(transactions[t])
        n     == Cardinality(group)
        s     == IntSum([i \in 1..Len(transactions) |->
                            IF i \in group THEN transactions[i].amount ELSE 0])
        q     == IntSum([i \in 1..Len(transactions) |->
                            IF i \in group THEN transactions[i].amount * transactions[i].amount
                            ELSE 0])
        x     == transactions[t].amount
    IN  Div(Rat(IAbs(n * x - s), n), Sqrt(Rat(n * q - s * s, n * n)))

GroupSum(txs, t, f(_)) ==
    IntSum([i \in 1..Len(txs) |->
               IF CategoryOrSentinel(txs[i].categoryId) = CategoryOrSentinel(txs[t].categoryId)
               THEN f(txs[i].amount) ELSE 0])

\* the amount of transaction t of txs is at or above the mean of its group
AtOrAboveMean(txs, t) ==
    GroupSum(txs, t, LAMBDA a : 1) * txs[t].amount >= GroupSum(txs, t, LAMBDA a : a)

\* the deviation score of transaction t of txs: |x - s / n| over the root of
\* the variance (n * q - s * s) / (n * n) of its group
ScoreIn(txs, t) ==
    LET n == GroupSum(txs, t, LAMBDA a : 1)
        s == GroupSum(txs, t, LAMBDA a : a)
        q == GroupSum(txs, t, LAMBDA a : a * a)
    IN  Div(Rat(IAbs(n * txs[t].amount - s), n), Sqrt(Rat(n * q - s * s, n * n)))

\* not flagged < low < medium < high, for the transaction of that id
TierIn(reported, id) ==
    LET reports == {i \in 1..Len(reported) :
                       CategoryLevel(reported[i]) /\ reported[i].transaction.id = id}
        severity == reported[CHOOSE i \in reports : TRUE].severity
    IN  IF reports = {} THEN 0
        ELSE IF severity = "low" THEN 1
        ELSE IF severity = "medium" THEN 2
        ELSE 3

\* the score of the changed transaction is not below its score before, and
\* its severity tier is not below its tier before
NotLowered ==
    LET before == baseline[1].transactions
        t      == baseline[1].raised
    IN  /\ ~LT(ScoreIn(transactions, t), ScoreIn(before, t))
        /\ TierIn(anomalies, before[t].id) >= TierIn(baseline[1].anomalies, before[t].id)

\* C12 as the specification states it: replacing one transaction's amount by
\* a larger one, the rest of its category group unchanged, never decreases
\* its deviation score and never lowers its severity tier.
RaiseNeverLowers == pc = "rescored" => NotLowered

\* the same for a transaction whose amount is at or above the mean of its
\* category group before the change: true of the scores as real numbers
\* (SpecRaise), not of the scores in doubles (SpecRaiseInDoubles)
RaiseFromMeanNeverLowers ==
    (pc = "rescored" /\ AtOrAboveMean(baseline[1].transactions, baseline[1].raised))
        => NotLowered

\* an amount above the mean that was 'low' is 'medium' once raised
RaisedToMedium ==
    /\ pc = "rescored"
    /\ AtOrAboveMean(baseline[1].transactions, baseline[1].raised)
    /\ TierIn(baseline[1].anomalies, baseline[1].transactions[baseline[1].raised].id) = 1
    /\ TierIn(anomalies, baseline[1].transactions[baseline[1].raised].id) = 2

\* the EXPENSE transactions of category c, told by index
ExpensesOf(c) ==
    {i \in 1..Len(transactions) :
        transactions[i].categoryId = c.id /\ transactions[i].type = "EXPENSE"}

\* category c has at least three EXPENSE transactions over at least two months
Forecastable(c) ==
    /\ Cardinality(ExpensesOf(c)) >= 3
    /\ \E i \in ExpensesOf(c), j \in ExpensesOf(c) :
           \/ GetFullYear(transactions[i].date) # GetFullYear(transactions[j].date)
           \/ GetMonth(transactions[i].date) # GetMonth(transactions[j].date)

ForecastsFor(id) ==
    {f \in 1..Len(categoryForecasts) : categoryForecasts[f].categoryId = id}

\* C18: generateCategoryForecasts emits nothing for a category with fewer than
\* three EXPENSE transactions or with all of them in a single month, and every
\* entry it emits belongs to a supplied category with at least three EXPENSE
\* transactions over at least two distinct months.
ForecastsOnlyWithHistory ==
    pc = "done" =>
        /\ \A c \in 1..Len(categories) :
               ~Forecastable(categories[c]) => ForecastsFor(categories[c].id) = {}
        /\ \A f \in 1..Len(categoryForecasts) :
               \E c \in 1..Len(categories) :
                   /\ categories[c].id = categoryForecasts[f].categoryId
                   /\ Forecastable(categories[c])

\* one supplied category is forecast while the other, with three expenses in
\* one month and refunds in two, is not, nor is the category left out
OneForecastOfThree ==
    /\ pc = "done"
    /\ Len(categoryForecasts) = 1
    /\ categoryForecasts[1].categoryId = PlainId
    /\ Cardinality(ExpensesOf(categories[2])) = 3
    /\ ~Forecastable(categories[2])
    /\ \E i \in 1..Len(transactions) :
           transactions[i].categoryId = IncomeId /\ transactions[i].type = "INCOME"
    /\ Forecastable([id |-> UuidId])

\* the anomalies of one kind that name a member of pattern p
PatternReports(p, kind) ==
    {i \in 1..Len(anomalies) :
        /\ anomalies[i].reason.kind = kind
        /\ \E m \in 1..Len(p.transactions) :
               p.transactions[m].id = anomalies[i].transaction.id}

\* the place in p.transactions of a member with the latest date
MostRecent(p) ==
    CHOOSE m \in 1..Len(p.transactions) :
        \A j \in 1..Len(p.transactions) : p.transactions[j].date <= p.transactions[m].date

AmountBand(dev) ==
    IF GT(dev, Num(1)) THEN "high"
    ELSE IF GT(dev, Rat(1, 2)) THEN "medium"
    ELSE IF GT(dev, Rat(1, 5)) THEN "low"
    ELSE "none"

\* C21: for each pattern the amount check of detectAnomalies looks at the most
\* recent member only: it is reported exactly when |amount - averageAmount| /
\* averageAmount > 0.2, 'low' up to 0.5, 'medium' up to 1.0 and 'high' above,
\* and no older member is reported by the pattern-level checks.
LatestAmountChecked ==
    pc = "scored" =>
        \A q \in 1..Len(recurringPatterns) :
            LET p    == recurringPatterns[q]
                last == p.transactions[MostRecent(p)]
                band == AmountBand(Div(Abs(Sub(Num(last.amount), p.averageAmount)),
                                       p.averageAmount))
            IN  /\ \A i \in PatternReports(p, "recurring amount")
                               \cup PatternReports(p, "recurring timing") :
                       anomalies[i].transaction.id = last.id
                /\ Cardinality(PatternReports(p, "recurring amount"))
                       = IF band = "none" THEN 0 ELSE 1
                /\ \A i \in PatternReports(p, "recurring amount") :
                       anomalies[i].severity = band

\* a last payment of 0 deviates from the average by exactly 1 and is reported
\* 'medium'; the first one, five times the steady amount, is not reported
LastPaymentOfNothing ==
    /\ pc = "scored"
    /\ Len(recurringPatterns) = 1
    /\ recurringPatterns[1].transactions[1].amount = 600
    /\ recurringPatterns[1].transactions[MostRecent(recurringPatterns[1])].amount = 0
    /\ \E i \in PatternReports(recurringPatterns[1], "recurring amount") :
           /\ anomalies[i].severity = "medium"
           /\ SameNumber(anomalies[i].amountDeviation[1], Num(1))

TimingBand(dev) ==
    IF GT(dev, Rat(6, 10)) THEN "high"
    ELSE IF GT(dev, Rat(4, 10)) THEN "medium"
    ELSE IF GT(dev, Rat(2, 10)) THEN "low"
    ELSE "none"

ExpectedPeriod(frequency) ==
    CASE frequency = "weekly" -> 7 [] frequency = "yearly" -> 365 [] OTHER -> 30

\* the whole days between the two most recent members of p
LatestGap(p) ==
    LET m == MostRecent(p)
        o == CHOOSE k \in (1..Len(p.transactions)) \ {m} :
                 \A j \in (1..Len(p.transactions)) \ {m} :
                     p.transactions[j].date <= p.transactions[k].date
    IN  p.transactions[m].date - p.transactions[o].date

\* C22: the timing check runs only for a pattern with confidenceScore > 0.8
\* and two members or more; it reports the most recent transaction exactly
\* when |gap - expected| / expected > 0.2, gap the days between the two most
\* recent members and expected 7, 365 or 30: 'low' up to 0.4, 'medium' up to
\* 0.6, 'high' above.
LatestGapChecked ==
    pc = "scored" =>
        \A q \in 1..Len(recurringPatterns) :
            LET p        == recurringPatterns[q]
                expected == ExpectedPeriod(p.frequency)
                band     == IF GT(p.confidenceScore, Rat(8, 10)) /\ Len(p.transactions) >= 2
                            THEN TimingBand(Rat(IAbs(LatestGap(p) - expected), expected))
                            ELSE "none"
            IN  /\ Cardinality(PatternReports(p, "recurring timing"))
                       = IF band = "none" THEN 0 ELSE 1
                /\ \A i \in PatternReports(p, "recurring timing") :
                       /\ anomalies[i].severity = band
                       /\ anomalies[i].transaction.id = p.transactions[MostRecent(p)].id

\* a monthly pattern whose last payment came 49 days after the one before
LateMonthlyPayment ==
    /\ pc = "scored"
    /\ Len(recurringPatterns) = 1
    /\ recurringPatterns[1].frequency = "monthly"
    /\ LatestGap(recurringPatterns[1]) = 49
    /\ \E i \in PatternReports(recurringPatterns[1], "recurring timing") :
           anomalies[i].severity = "high"

\* forecast i of the request differs, in one channel, from the forecast made
\* without the patterns: some pattern added to the channel
Added(i, channel) ==
    IF channel = "INCOME"
    THEN ~SameNumber(monthlyForecasts[i].predictedIncome,
                     repeatedForecasts[i].predictedIncome)
    ELSE ~SameNumber(monthlyForecasts[i].predictedExpenses,
                     repeatedForecasts[i].predictedExpenses)

AllOfType(p, type) == \A m \in 1..Len(p.transactions) : p.transactions[m].type = type

\* C23: in the recurring contribution of generateMonthlyForecast a pattern adds
\* to a channel only if its member transactions all have the channel's type
\* and its confidenceScore is at least 0.7; a pattern of TRANSFER transactions
\* adds to neither channel and no pattern adds to both.
ChannelTakesOwnPatterns ==
    (pc = "compared" /\ Len(recurringPatterns) = 1) =>
        \A i \in 1..Len(monthlyForecasts) :
            /\ \A channel \in {"INCOME", "EXPENSE"} :
                   Added(i, channel) =>
                       /\ AllOfType(recurringPatterns[1], channel)
                       /\ GE(recurringPatterns[1].confidenceScore, Rat(7, 10))
            /\ ~(Added(i, "INCOME") /\ Added(i, "EXPENSE"))

\* the months from the month of date to the month keyed <<year, month>>
MonthsUntil(key, date) == (key[1] - GetFullYear(date)) * 12 + (key[2] - 1 - GetMonth(date))

\* what the claim lets monthly pattern p add to the month keyed key
OnceOrNothing(p, key) ==
    IF MonthKey(p.nextPredictedDate[1]) = key \/ MonthsUntil(key, p.lastTransactionDate) > 0
    THEN p.averageAmount
    ELSE Num(0)

\* C24: a qualifying monthly pattern adds to a target month exactly its
\* averageAmount or nothing: averageAmount if nextPredictedDate lies in the
\* target month or the target month is after the month of the last
\* transaction, and 0 otherwise.
MonthlyAddsOnce ==
    (/\ pc = "compared"
     /\ Len(recurringPatterns) = 1
     /\ recurringPatterns[1].frequency = "monthly"
     /\ GE(recurringPatterns[1].confidenceScore, Rat(7, 10))) =>
        \A i \in 1..Len(monthlyForecasts) :
            LET p     == recurringPatterns[1]
                added == OnceOrNothing(p, monthlyForecasts[i].month)
            IN  /\ (AllOfType(p, "EXPENSE")
                       /\ GT(repeatedForecasts[i].predictedExpenses, Num(0))) =>
                       SameNumber(monthlyForecasts[i].predictedExpenses,
                                  MathMax(Num(0),
                                          Add(repeatedForecasts[i].predictedExpenses, added)))
                /\ (AllOfType(p, "INCOME")
                       /\ GT(repeatedForecasts[i].predictedIncome, Num(0))) =>
                       SameNumber(monthlyForecasts[i].predictedIncome,
                                  MathMax(Num(0),
                                          Add(repeatedForecasts[i].predictedIncome, added)))

\* asked 45 days before the last payment of a monthly expense: nothing is
\* added to the two months up to that payment, 15 to the month after it
NothingUntilLastPayment ==
    /\ pc = "compared"
    /\ Len(recurringPatterns) = 1
    /\ recurringPatterns[1].frequency = "monthly"
    /\ AllOfType(recurringPatterns[1], "EXPENSE")
    /\ Len(monthlyForecasts) = 3
    /\ MonthsUntil(monthlyForecasts[2].month, recurringPatterns[1].lastTransactionDate) = 0
    /\ GT(repeatedForecasts[1].predictedExpenses, Num(0))
    /\ ~Added(1, "EXPENSE")
    /\ ~Added(2, "EXPENSE")
    /\ Added(3, "EXPENSE")

\* the key of the month i months after the month of date
MonthAfter(date, i) ==
    LET at == GetFullYear(date) * 12 + GetMonth(date) + i
    IN  <<at \div 12, (at % 12) + 1>>

\* C27: generateMonthlyForecast with monthsToForecast = k >= 1 returns k
\* forecasts, forecast i keyed by the i-th calendar month after the current
\* one, whatever the day of the month of the current date.
ForecastMonthsFollow ==
    (pc = "forecast" /\ forecastMonths >= 1) =>
        /\ Len(monthlyForecasts) = forecastMonths
        /\ \A i \in 1..Len(monthlyForecasts) :
               monthlyForecasts[i].month = MonthAfter(now, i)

\* C28: for every emitted monthly pattern nextPredictedDate lies in the
\* calendar month after the month of the last transaction, whatever its day
\* of the month; for a weekly one it is 7 days, for a yearly one a year,
\* after the last transaction's date.
NextDateOnePeriodOn ==
    \A q \in 1..Len(recurringPatterns) :
        LET p    == recurringPatterns[q]
            last == p.lastTransactionDate
            next == p.nextPredictedDate[1]
        IN  /\ p.frequency = "monthly" => MonthKey(next) = MonthAfter(last, 1)
            /\ p.frequency = "weekly" => next = last + 7
            /\ p.frequency = "yearly" =>
                   /\ GetFullYear(next) = GetFullYear(last) + 1
                   /\ GetMonth(next) = GetMonth(last)
                   /\ GetDate(next) = GetDate(last)

\* C29: every pattern returned by detectRecurringTransactions is monthly,
\* weekly or yearly, has a nextPredictedDate, a confidenceScore in (0.6, 0.9],
\* its members in non-decreasing date order and lastTransactionDate equal to
\* the date of its last member.
PatternsWellFormed ==
    \A q \in 1..Len(recurringPatterns) :
        LET p == recurringPatterns[q]
        IN  /\ p.frequency \in {"monthly", "weekly", "yearly"}
            /\ p.nextPredictedDate # <<>>
            /\ GT(p.confidenceScore, Rat(6, 10))
            /\ LE(p.confidenceScore, Rat(9, 10))
            /\ \A m \in 1..(Len(p.transactions) - 1) :
                   p.transactions[m].date <= p.transactions[m + 1].date
            /\ p.lastTransactionDate = p.transactions[Len(p.transactions)].date

\* a weekly pattern of four payments at uneven gaps, confidence under 0.7,
\* found in an input that lists the newest payment first
LooseWeeklyFromNewestFirst ==
    /\ pc = "detected"
    /\ Len(recurringPatterns) = 1
    /\ recurringPatterns[1].frequency = "weekly"
    /\ LT(recurringPatterns[1].confidenceScore, Rat(7, 10))
    /\ Len(recurringPatterns[1].transactions) = 4
    /\ transactions[1].date > transactions[2].date

\* the sum of the amounts of the transactions at the places in S
RECURSIVE AmountsOf(_)
AmountsOf(S) ==
    IF S = {} THEN 0
    ELSE LET i == CHOOSE j \in S : TRUE
         IN  transactions[i].amount + AmountsOf(S \ {i})

\* the totals of the EXPENSE transactions of the category, month by month in
\* calendar order
MonthlySpend(id) ==
    LET spent(key) == {i \in 1..Len(transactions) :
                          /\ transactions[i].categoryId = id
                          /\ transactions[i].type = "EXPENSE"
                          /\ MonthKey(transactions[i].date) = key}
        keys       == {MonthKey(transactions[i].date) : i \in ExpensesOf([id |-> id])}
        total(key) == AmountsOf(spent(key))
        place(key) == Cardinality({k \in keys : KeyLess(k, key)}) + 1
    IN  [x \in 1..Cardinality(keys) |-> total(CHOOSE key \in keys : place(key) = x)]

\* the slope of the least-squares line through ys at 0, 1, ... is Over / Under
SlopeOver(ys) ==
    Len(ys) * IntSum([x \in 1..Len(ys) |-> (x - 1) * ys[x]])
        - IntSum([x \in 1..Len(ys) |-> x - 1]) * IntSum(ys)

SlopeUnder(ys) ==
    Len(ys) * IntSum([x \in 1..Len(ys) |-> (x - 1) * (x - 1)])
        - IntSum([x \in 1..Len(ys) |-> x - 1]) * IntSum([x \in 1..Len(ys) |-> x - 1])

\* slope > 0.05 * mean, the mean being IntSum(ys) / Len(ys)
RisesByFiveInHundred(ys) == 20 * Len(ys) * SlopeOver(ys) > SlopeUnder(ys) * IntSum(ys)

\* slope < -0.05 * mean
FallsByFiveInHundred(ys) == 20 * Len(ys) * SlopeOver(ys) < -(SlopeUnder(ys) * IntSum(ys))

\* the fitted line at index at, not below 0
FittedAt(ys, at) ==
    MathMax(Num(0),
            Rat(IntSum(ys) * SlopeUnder(ys)
                    - SlopeOver(ys) * IntSum([x \in 1..Len(ys) |-> x - 1])
                    + SlopeOver(ys) * at * Len(ys),
                Len(ys) * SlopeUnder(ys)))

PredictionsOnTheLine(f) ==
    LET ys == MonthlySpend(categoryForecasts[f].categoryId)
    IN  /\ SameNumber(categoryForecasts[f].currentMonthPrediction, FittedAt(ys, Len(ys)))
        /\ SameNumber(categoryForecasts[f].nextMonthPrediction, FittedAt(ys, Len(ys) + 1))

\* C25 as the specification states it: trend is 'increasing' exactly when
\* slope > 0.05 * mean, 'decreasing' exactly when slope < -0.05 * mean and
\* 'stable' otherwise; the two predictions are the fitted line at n and n + 1,
\* clamped at 0.
TrendByEitherTest ==
    \A f \in 1..Len(categoryForecasts) :
        LET ys == MonthlySpend(categoryForecasts[f].categoryId)
        IN  /\ categoryForecasts[f].trend = "increasing" <=> RisesByFiveInHundred(ys)
            /\ categoryForecasts[f].trend = "decreasing" <=> FallsByFiveInHundred(ys)
            /\ categoryForecasts[f].trend = "stable"
                   <=> ~RisesByFiveInHundred(ys) /\ ~FallsByFiveInHundred(ys)
            /\ PredictionsOnTheLine(f)

\* C25 as amended: trend is 'decreasing' exactly when slope < -0.05 * mean,
\* 'increasing' exactly when slope > 0.05 * mean and not slope < -0.05 * mean,
\* and 'stable' otherwise; the predictions as stated.
TrendDecreasingFirst ==
    \A f \in 1..Len(categoryForecasts) :
        LET ys == MonthlySpend(categoryForecasts[f].categoryId)
        IN  /\ categoryForecasts[f].trend = "decreasing" <=> FallsByFiveInHundred(ys)
            /\ categoryForecasts[f].trend = "increasing"
                   <=> RisesByFiveInHundred(ys) /\ ~FallsByFiveInHundred(ys)
            /\ categoryForecasts[f].trend = "stable"
                   <=> ~RisesByFiveInHundred(ys) /\ ~FallsByFiveInHundred(ys)
            /\ PredictionsOnTheLine(f)

\* a category of level negative monthly totals passes both tests and is
\* forecast as 'decreasing'
NegativeSpendDecreasing ==
    /\ pc = "done"
    /\ \E f \in 1..Len(categoryForecasts) :
           LET ys == MonthlySpend(categoryForecasts[f].categoryId)
           IN  /\ RisesByFiveInHundred(ys)
               /\ FallsByFiveInHundred(ys)
               /\ categoryForecasts[f].trend = "decreasing"

\* the square of the double d is at most the whole number limit
SquareAtMost(d, limit) ==
    /\ d.k = "fin"
    /\ LET square == Ieee("Times", d.m, d.m, 0, 0)
           whole  == Ieee("Digits", limit, 0, 0, 0)
       IN  IF d.e < 0
           THEN Ieee("Cmp", square, Ieee("Shl", whole, -(2 * d.e), 0, 0), 0, 0) <= 0
           ELSE Ieee("Cmp", Ieee("Shl", square, 2 * d.e, 0, 0), whole, 0, 0) <= 0

\* the scores of the category group of transaction t as detectAnomalies
\* computes them, and the place of t in that group
GroupScores(t) ==
    Ieee("Scores",
         LET group == CategoryMembers(transactions,
                                      CategoryOrSentinel(transactions[t].categoryId))
         IN  [i \in 1..Len(group) |-> group[i].amount],
         0, 0, 0)

PlaceInGroup(t) == Cardinality({i \in CategoryGroup(transactions[t]) : i <= t})

\* C26: in a category group of n transactions the deviation score of a
\* member is at most sqrt(n - 1); hence detectAnomalies reports no
\* category-level anomaly for a group of exactly 5, no 'medium' one for a
\* group of fewer than 11 and no 'high' one for a group of fewer than 18.
ScoreWithinRootOfSize ==
    pc = "scored" =>
        /\ \A t \in 1..Len(transactions) :
               LET n == Cardinality(CategoryGroup(transactions[t]))
               IN  n >= MinCategorySample
                       => SquareAtMost(GroupScores(t)[PlaceInGroup(t)], n - 1)
        /\ \A i \in 1..Len(anomalies) :
               CategoryLevel(anomalies[i]) =>
                   LET n == Cardinality(CategoryGroup(anomalies[i].transaction))
                   IN  /\ n # 5
                       /\ anomalies[i].severity = "medium" => n >= 11
                       /\ anomalies[i].severity = "high" => n >= 18

\* a call of detectAnomalies, generateMonthlyForecast or
\* generateCategoryForecasts returns
EngineReturns == pc' # pc /\ pc' \in {"scored", "forecast", "done", "repeated"}

====
